---- MODULE Spec2Model ----
(***************************************************************************)
(* A model of facto-rs: integer factorization (trial division, Pollard's   *)
(* Rho with Brent cycle detection), Miller-Rabin and Lucas primality, and  *)
(* the certified factorization driver that fills a Lucas certificate.      *)
(*                                                                         *)
(* Values are the u64 values of the program, restricted to n < 2^26 so     *)
(* that every intermediate of the modular arithmetic below fits the        *)
(* model checker's integers.  Loops of the program are run by iterating    *)
(* their body (one operator per loop body) up to 8^k times, with an early  *)
(* exit at the round that leaves the loop.                                 *)
(***************************************************************************)
EXTENDS Integers, Naturals, Sequences, FiniteSets, TLC

\* ------------------------------------------------------------------ bounds

\* The small inputs 1..MaxSmall are all tried.
MaxSmall == 130

\* Calls made on a certificate that an earlier call has filled.
MaxReuse == 1

\* Inputs of the calls made on an already filled certificate: 1..MaxReuseInput.
MaxReuseInput == 8

\* A loop body is iterated at most 8^LoopFuel times.
LoopFuel == 5

\* ------------------------------------------------------- integer helpers

\* 2^k
Pow2(k) == 2^k

\* u64::trailing_zeros, for 0 < x < 2^30: the k with 2^k | x and not 2^(k+1) | x
trailing_zeros(x) ==
  CHOOSE k \in 0..29 : x % Pow2(k) = 0 /\ x % Pow2(k + 1) # 0

\* (a * b) mod n for a, b < n < 2^26, without leaving the 32-bit integers:
\* the double-width product the code hands to the field, reduced.
RECURSIVE MulMod(_, _, _)
MulMod(a, b, n) ==
  IF b = 0 THEN 0
  ELSE (((a * (b % 32)) % n) + ((MulMod(a, b \div 32, n) * 32) % n)) % n

\* One bit of the exponent, lowest first: square and multiply.
pm_step(st, n) ==
  [acc |-> IF st.e % 2 = 1 THEN MulMod(st.acc, st.b, n) ELSE st.acc,
   b |-> MulMod(st.b, st.b, n),
   e |-> st.e \div 2,
   done |-> st.e \div 2 = 0]

RECURSIVE pm_loop(_, _, _)
pm_loop(st, n, k) ==
  CASE st.done -> st
    [] ~st.done /\ k = 0 -> pm_step(st, n)
    [] OTHER ->
         LET s1 == pm_loop(st, n, k - 1)
             s2 == pm_loop(s1, n, k - 1)
             s3 == pm_loop(s2, n, k - 1)
             s4 == pm_loop(s3, n, k - 1)
             s5 == pm_loop(s4, n, k - 1)
             s6 == pm_loop(s5, n, k - 1)
             s7 == pm_loop(s6, n, k - 1)
         IN CASE s1.done -> s1
              [] s2.done -> s2
              [] s3.done -> s3
              [] s4.done -> s4
              [] s5.done -> s5
              [] s6.done -> s6
              [] s7.done -> s7
              [] OTHER -> pm_loop(s7, n, k - 1)

\* b^e mod n for b < n
PowMod(b, e, n) ==
  pm_loop([acc |-> 1 % n, b |-> b, e |-> e, done |-> e = 0], n, LoopFuel).acc

\* ------------------------------------------- Montgomery field (redc crate)

\* The word size of the Montgomery radix R = 2^64 of the u64 field.
WordBits == 64

\* Redc::setup_field for odd n: the modulus, R mod n and R^-1 mod n.
setup_field(n) ==
  [n |-> n,
   r |-> PowMod(2 % n, WordBits, n),
   rinv |-> PowMod(((n + 1) \div 2) % n, WordBits, n)]

\* Redc::to_montgomery: x R mod n (x is reduced first)
to_montgomery(x, field) == MulMod(x % field.n, field.r, field.n)

\* Redc::to_montgomery_unchecked: x R mod n for x < n
to_montgomery_unchecked(x, field) == MulMod(x, field.r, field.n)

\* Redc::to_normal: x R^-1 mod n
to_normal(x, field) == MulMod(x, field.rinv, field.n)

\* Field::redc of the double-width value a * b + c: (a b + c) R^-1 mod n
redc(a, b, c, field) ==
  MulMod((MulMod(a, b, field.n) + c) % field.n, field.rinv, field.n)

\* Redc::mod_pow: the Montgomery form of (the value of base)^e
mod_pow(base, e, field) ==
  to_montgomery_unchecked(PowMod(to_normal(base, field), e, field.n), field)

\* ------------------------------------------------------------ Miller-Rabin

\* The loop "for _ in 1..s": i runs from 1 to s - 1.
RECURSIVE mr_square_loop(_, _, _, _, _)
mr_square_loop(base_power, i, s, neg_one_mod, field) ==
  IF i >= s THEN "Composite"
  ELSE LET bp == redc(base_power, base_power, 0, field)
       IN IF bp = neg_one_mod THEN "MaybePrime"
          ELSE mr_square_loop(bp, i + 1, s, neg_one_mod, field)

\* The test that forgets "if base_power == neg_one_mod" before the loop.
mr_decide_one_only(base_power, one, neg_one_mod, s, field) ==
  IF base_power = one THEN "MaybePrime"
  ELSE mr_square_loop(base_power, 1, s, neg_one_mod, field)

\* The test once base^d is known: "if base_power == one || base_power ==
\* neg_one_mod { return MaybePrime }" and the squaring loop.
mr_decide(base_power, one, neg_one_mod, s, field) ==
  CASE base_power = one -> "MaybePrime"
    [] base_power # one /\ base_power = neg_one_mod -> "MaybePrime"
    [] OTHER -> mr_square_loop(base_power, 1, s, neg_one_mod, field)

\* The test in the field of self, from the Montgomery form of the base on.
mr_in_field(n_minus_one, s, mbase, field) ==
  IF mbase = 0 THEN "MaybePrime"
  ELSE mr_decide(mod_pow(mbase, n_minus_one \div Pow2(s), field),
                 to_montgomery_unchecked(1, field),
                 to_montgomery_unchecked(n_minus_one, field), s, field)

\* The test once the field of self is set up.
mr_with_field(self, base, field) ==
  mr_in_field(self - 1, trailing_zeros(self - 1), to_montgomery(base, field),
              field)

\* <u64 as MillerRabin>::miller_rabin
miller_rabin(self, base) ==
  CASE self = 2 -> "MaybePrime"
    [] self # 2 /\ self % 2 = 0 -> "Composite"
    [] OTHER -> mr_with_field(self, base, setup_field(self))

REQ_PRIMES == <<2, 325, 9375, 28178, 450775, 9780504, 1795265022>>

\* is_prime that asks the base REQ_PRIMES[i] only.
is_prime_from_one(self, i) ==
  miller_rabin(self, REQ_PRIMES[i]) # "Composite"

\* <u64 as Primality>::is_prime: the first Composite answer returns false.
RECURSIVE is_prime_from(_, _)
is_prime_from(self, i) ==
  IF i > Len(REQ_PRIMES) THEN TRUE
  ELSE IF miller_rabin(self, REQ_PRIMES[i]) = "Composite" THEN FALSE
  ELSE is_prime_from(self, i + 1)

is_prime(self) == is_prime_from(self, 1)

\* --------------------------------------------------------- Lucas primality

RECURSIVE lucas_factor_loop(_, _, _, _, _, _)
lucas_factor_loop(mbase, n_minus_one, factors, i, one, field) ==
  IF i > Len(factors) THEN "Prime"
  ELSE IF mod_pow(mbase, n_minus_one \div factors[i], field) = one THEN "Unknown"
  ELSE lucas_factor_loop(mbase, n_minus_one, factors, i + 1, one, field)

\* The test without "if base.mod_pow(n_minus_one) != one { return Composite }".
lucas_in_field_unchecked(mbase, one, n_minus_one, factors, field) ==
  lucas_factor_loop(mbase, n_minus_one, factors, 1, one, field)

\* The test in the field of self: "if base.mod_pow(n - 1) != one { return
\* Composite }" and the loop over the prime factors of n - 1.
lucas_in_field(mbase, one, n_minus_one, factors, field) ==
  IF mod_pow(mbase, n_minus_one, field) # one THEN "Composite"
  ELSE lucas_factor_loop(mbase, n_minus_one, factors, 1, one, field)

\* The test once the field of self is set up.
lucas_with_field(self, factors, base, field) ==
  lucas_in_field(to_montgomery_unchecked(base, field),
                 to_montgomery_unchecked(1, field), self - 1, factors, field)

\* <u64 as LucasPrimalityTest>::lucas_primality_test
lucas_primality_test(self, n_minus_1_unique_prime_factors, base) ==
  lucas_with_field(self, n_minus_1_unique_prime_factors, base,
                   setup_field(self))

\* ------------------------------------------------------------------ util

\* A call of p_gcd whose "if u == v { return u }" returns u as it was before
\* the shift.
p_gcd_call_unshifted(st) ==
  LET us == st.u \div Pow2(trailing_zeros(st.u))
      vs == st.v \div Pow2(trailing_zeros(st.v))
  IN CASE st.u = 0 -> [st EXCEPT !.ret = st.v, !.done = TRUE]
       [] st.u # 0 /\ st.v = 0 -> [st EXCEPT !.ret = st.u, !.done = TRUE]
       [] st.u # 0 /\ st.v # 0 /\ us = vs -> [st EXCEPT !.ret = st.u, !.done = TRUE]
       [] st.u # 0 /\ st.v # 0 /\ vs > us -> [st EXCEPT !.u = (vs - us) \div 2, !.v = us]
       [] OTHER -> [st EXCEPT !.u = (us - vs) \div 2, !.v = vs]

\* One call of p_gcd: it returns (done) or calls itself on new arguments.
p_gcd_call(st) ==
  LET us == st.u \div Pow2(trailing_zeros(st.u))
      vs == st.v \div Pow2(trailing_zeros(st.v))
  IN CASE st.u = 0 -> [st EXCEPT !.ret = st.v, !.done = TRUE]
       [] st.u # 0 /\ st.v = 0 -> [st EXCEPT !.ret = st.u, !.done = TRUE]
       [] st.u # 0 /\ st.v # 0 /\ us = vs -> [st EXCEPT !.ret = us, !.done = TRUE]
       [] st.u # 0 /\ st.v # 0 /\ vs > us -> [st EXCEPT !.u = (vs - us) \div 2, !.v = us]
       [] OTHER -> [st EXCEPT !.u = (us - vs) \div 2, !.v = vs]

\* Up to 8^k calls of p_gcd, stopping at the call that returns.
RECURSIVE p_gcd_loop(_, _)
p_gcd_loop(st, k) ==
  CASE st.done -> st
    [] ~st.done /\ k = 0 -> p_gcd_call(st)
    [] OTHER ->
         LET s1 == p_gcd_loop(st, k - 1)
             s2 == p_gcd_loop(s1, k - 1)
             s3 == p_gcd_loop(s2, k - 1)
             s4 == p_gcd_loop(s3, k - 1)
             s5 == p_gcd_loop(s4, k - 1)
             s6 == p_gcd_loop(s5, k - 1)
             s7 == p_gcd_loop(s6, k - 1)
         IN CASE s1.done -> s1
              [] s2.done -> s2
              [] s3.done -> s3
              [] s4.done -> s4
              [] s5.done -> s5
              [] s6.done -> s6
              [] s7.done -> s7
              [] OTHER -> p_gcd_loop(s7, k - 1)

\* p_gcd: the binary gcd of util.rs, as written there.
p_gcd(u, v) ==
  p_gcd_loop([u |-> u, v |-> v, ret |-> 0, done |-> FALSE], LoopFuel).ret

gcd(u, v) == p_gcd(u, v)

\* The loop "while next_result < result" of p_integer_square_root.
RECURSIVE isqrt_loop(_, _, _)
isqrt_loop(n, result, next_result) ==
  IF next_result < result
  THEN isqrt_loop(n, next_result, (next_result + (n \div next_result)) \div 2)
  ELSE result

p_integer_square_root(n) ==
  LET result == n \div 2
  IN IF result = 0 THEN n
     ELSE isqrt_loop(n, result, (result + (n \div result)) \div 2)

integer_square_root(n) == p_integer_square_root(n)

\* "(result + n / result) / two" in an unsigned type of w bits: the value the
\* type holds, and whether the sum passed the type's maximum.
isqrt_next_rounded_up(n, result, w) ==
  [value |-> (((result + (n \div result)) % Pow2(w)) + 1) \div 2,
   overflow |-> result + (n \div result) >= Pow2(w)]

isqrt_next(n, result, w) ==
  [value |-> ((result + (n \div result)) % Pow2(w)) \div 2,
   overflow |-> result + (n \div result) >= Pow2(w)]

\* The loop "while next_result < result" in a type of w bits; overflow says
\* whether a sum has passed the type's maximum so far.
RECURSIVE isqrt_loop_w(_, _, _, _)
isqrt_loop_w(n, result, next, w) ==
  IF next.value < result /\ ~next.overflow
  THEN isqrt_loop_w(n, next.value, isqrt_next(n, next.value, w), w)
  ELSE [r |-> result, overflow |-> next.overflow]

\* p_integer_square_root::<T> for T of w bits.
p_integer_square_root_w(n, w) ==
  IF n \div 2 = 0 THEN [r |-> n, overflow |-> FALSE]
  ELSE isqrt_loop_w(n, n \div 2, isqrt_next(n, n \div 2, w), w)

\* --------------------------------------------------------- trial division

PRE_PRIMES == <<2, 3, 5>>
TEST_DELTA == <<1, 5>>
ROUND_INCREMENT == 6

\* "while n % f == 0" run as an "if": f is divided out once.
td_divide_out_once(n, f, result) ==
  IF n % f = 0 THEN [n |-> n \div f, result |-> Append(result, f)]
  ELSE [n |-> n, result |-> result]

\* while n % f == 0 { result.push(f); n = n / f; }
RECURSIVE td_divide_out(_, _, _)
td_divide_out(n, f, result) ==
  IF n % f = 0 THEN td_divide_out(n \div f, f, Append(result, f))
  ELSE [n |-> n, result |-> result]

\* for prime in PRE_PRIMES { ... }
RECURSIVE td_pre_primes(_, _, _)
td_pre_primes(n, result, i) ==
  IF i > Len(PRE_PRIMES) THEN [n |-> n, result |-> result]
  ELSE LET a == td_divide_out(n, PRE_PRIMES[i], result)
       IN td_pre_primes(a.n, a.result, i + 1)

\* for delta in TEST_DELTA { ... }
RECURSIVE td_deltas(_, _, _, _)
td_deltas(n, result, current_factor, i) ==
  IF i > Len(TEST_DELTA) THEN [n |-> n, result |-> result]
  ELSE LET a == td_divide_out(n, current_factor + TEST_DELTA[i], result)
       IN td_deltas(a.n, a.result, current_factor, i + 1)

\* One round of the "loop" of p_trial_division.
td_round(st, inclusive_bound) ==
  LET a == td_deltas(st.n, st.result, st.current_factor, 1)
      changed == Len(a.result) # Len(st.result)
      max_possible_factor ==
        IF changed THEN integer_square_root(a.n) ELSE st.max_possible_factor
  IN IF a.n = 1
     THEN [st EXCEPT !.n = a.n, !.result = a.result,
                     !.done = TRUE, !.exhaustive = TRUE]
     ELSE IF st.current_factor > max_possible_factor
     THEN [st EXCEPT !.n = a.n, !.result = Append(a.result, a.n),
                     !.max_possible_factor = max_possible_factor,
                     !.done = TRUE, !.exhaustive = TRUE]
     ELSE IF st.current_factor > inclusive_bound
     THEN [st EXCEPT !.n = a.n, !.result = Append(a.result, a.n),
                     !.max_possible_factor = max_possible_factor,
                     !.done = TRUE, !.exhaustive = FALSE]
     ELSE [st EXCEPT !.n = a.n, !.result = a.result,
                     !.max_possible_factor = max_possible_factor,
                     !.current_factor = st.current_factor + ROUND_INCREMENT]

\* Up to 8^k rounds of the loop, stopping at the round that leaves it.
RECURSIVE td_loop(_, _, _)
td_loop(st, inclusive_bound, k) ==
  CASE st.done -> st
    [] ~st.done /\ k = 0 -> td_round(st, inclusive_bound)
    [] OTHER ->
         LET s1 == td_loop(st, inclusive_bound, k - 1)
             s2 == td_loop(s1, inclusive_bound, k - 1)
             s3 == td_loop(s2, inclusive_bound, k - 1)
             s4 == td_loop(s3, inclusive_bound, k - 1)
             s5 == td_loop(s4, inclusive_bound, k - 1)
             s6 == td_loop(s5, inclusive_bound, k - 1)
             s7 == td_loop(s6, inclusive_bound, k - 1)
         IN CASE s1.done -> s1
              [] s2.done -> s2
              [] s3.done -> s3
              [] s4.done -> s4
              [] s5.done -> s5
              [] s6.done -> s6
              [] s7.done -> s7
              [] OTHER -> td_loop(s7, inclusive_bound, k - 1)

\* p_trial_division(n, inclusive_bound) for n >= 1: the factors and the
\* exhaustive flag.
p_trial_division(n, inclusive_bound) ==
  LET pre == td_pre_primes(n, <<>>, 1)
      st == td_loop([n |-> pre.n, result |-> pre.result,
                     max_possible_factor |-> integer_square_root(pre.n),
                     current_factor |-> ROUND_INCREMENT,
                     done |-> FALSE, exhaustive |-> FALSE],
                    inclusive_bound, LoopFuel)
  IN [factors |-> st.result, exhaustive |-> st.exhaustive, done |-> st.done]

\* The state in which p_trial_division(n, inclusive_bound) returns: n is what
\* is left of the number, 1 or the residual that "result.push(n)" appended.
td_return(n, inclusive_bound) ==
  td_loop([n |-> td_pre_primes(n, <<>>, 1).n,
           result |-> td_pre_primes(n, <<>>, 1).result,
           max_possible_factor |->
             integer_square_root(td_pre_primes(n, <<>>, 1).n),
           current_factor |-> ROUND_INCREMENT,
           done |-> FALSE, exhaustive |-> FALSE],
          inclusive_bound, LoopFuel)

\* What the call returned, and how many elements of the list were pushed by
\* the two "while n % f == 0" loops.
td_returned(r, st) ==
  [factors |-> r.factors, exhaustive |-> r.exhaustive, done |-> r.done,
   divided |-> IF st.n = 1 THEN Len(st.result) ELSE Len(st.result) - 1]

trial_division(self, inclusive_bound) == p_trial_division(self, inclusive_bound)

\* ------------------------------------------- Brent cycle and Pollard's Rho

Max(a, b) == IF a > b THEN a ELSE b

\* PollardRhoMapperU64::run: redc(n * n + increment)
mapper_run(mapper, n) == redc(n, n, mapper.increment, mapper.field)

\* PollardRhoCycleConditionCheckerU64::new
checker_new(field, n, start) ==
  [field |-> field, accum |-> to_montgomery_unchecked(1, field), n |-> n,
   last_tortoise |-> start, last_hare |-> start]

\* The gcd taken where the masked difference is 0.
gcd_step_zero(count, power) ==
  LET power_count == trailing_zeros(power)
  IN ((power - count) % Pow2(Max(5, power_count \div 2))) = 0

\* The steps at which check computes a gcd:
\* (power - count) & ((1 << max(5, power_count / 2)) - 1) == 1
gcd_step(count, power) ==
  LET power_count == trailing_zeros(power)
  IN ((power - count) % Pow2(Max(5, power_count \div 2))) = 1

\* check once the product of the differences is known: the gcd is taken at
\* the steps gcd_step names.
check_accum(self, tortoise, hare, count, power, accum) ==
  CASE ~gcd_step(count, power) ->
         [self |-> [self EXCEPT !.accum = accum, !.last_tortoise = tortoise],
          ret |-> FALSE]
    [] gcd_step(count, power)
         /\ gcd(to_normal(accum, self.field), self.n) # 1 ->
         [self |-> [self EXCEPT !.accum = accum, !.last_tortoise = tortoise],
          ret |-> TRUE]
    [] OTHER ->
         [self |-> [self EXCEPT !.accum = accum, !.last_tortoise = tortoise,
                                !.last_hare = hare],
          ret |-> FALSE]

\* PollardRhoCycleConditionCheckerU64::check: the checker after the call
\* and the boolean returned.
check(self, tortoise, hare, count, power) ==
  check_accum(self, tortoise, hare, count, power,
              redc(self.accum,
                   IF hare > tortoise THEN hare - tortoise ELSE tortoise - hare,
                   0, self.field))

\* The loop body with "tortoise = hare.clone()" moved after
\* "hare = mapper.run(hare)".
fc_body_late(st, mapper, r) ==
  CASE r.ret -> [st EXCEPT !.cycle_condition = r.self, !.done = TRUE]
    [] ~r.ret /\ st.power = st.count + 1 ->
         [st EXCEPT !.cycle_condition = r.self,
                    !.tortoise = mapper_run(mapper, st.hare),
                    !.power = st.power * 2,
                    !.count = 0,
                    !.hare = mapper_run(mapper, st.hare),
                    !.steps = st.steps + 1]
    [] OTHER ->
         [st EXCEPT !.cycle_condition = r.self,
                    !.count = st.count + 1,
                    !.hare = mapper_run(mapper, st.hare),
                    !.steps = st.steps + 1]

\* The loop body of find_cycle, r being what the loop condition's check
\* answered.
fc_body(st, mapper, r) ==
  CASE r.ret -> [st EXCEPT !.cycle_condition = r.self, !.done = TRUE]
    [] ~r.ret /\ st.power = st.count + 1 ->
         [st EXCEPT !.cycle_condition = r.self,
                    !.tortoise = st.hare,
                    !.power = st.power * 2,
                    !.count = 0,
                    !.hare = mapper_run(mapper, st.hare),
                    !.steps = st.steps + 1]
    [] OTHER ->
         [st EXCEPT !.cycle_condition = r.self,
                    !.count = st.count + 1,
                    !.hare = mapper_run(mapper, st.hare),
                    !.steps = st.steps + 1]

\* One evaluation of the loop condition of find_cycle and, when the check
\* is false, one run of the loop body.
fc_step(st, mapper) ==
  fc_body(st, mapper,
          check(st.cycle_condition, st.tortoise, st.hare, st.count, st.power))

RECURSIVE fc_loop(_, _, _)
fc_loop(st, mapper, k) ==
  CASE st.done -> st
    [] ~st.done /\ k = 0 -> fc_step(st, mapper)
    [] OTHER ->
         LET s1 == fc_loop(st, mapper, k - 1)
             s2 == fc_loop(s1, mapper, k - 1)
             s3 == fc_loop(s2, mapper, k - 1)
             s4 == fc_loop(s3, mapper, k - 1)
             s5 == fc_loop(s4, mapper, k - 1)
             s6 == fc_loop(s5, mapper, k - 1)
             s7 == fc_loop(s6, mapper, k - 1)
         IN CASE s1.done -> s1
              [] s2.done -> s2
              [] s3.done -> s3
              [] s4.done -> s4
              [] s5.done -> s5
              [] s6.done -> s6
              [] s7.done -> s7
              [] OTHER -> fc_loop(s7, mapper, k - 1)

\* The state of find_cycle before the first check.
fc_init(mapper, cycle_condition, start) ==
  [tortoise |-> start, hare |-> mapper_run(mapper, start),
   power |-> 1, count |-> 0, cycle_condition |-> cycle_condition,
   done |-> FALSE, steps |-> 0]

find_cycle(mapper, cycle_condition, start) ==
  fc_loop(fc_init(mapper, cycle_condition, start), mapper, LoopFuel)

\* The round of the loop of extract once the gcd d is known.
ex_body(st, f, d) ==
  IF d # 1 THEN [st EXCEPT !.d = d, !.done = TRUE]
  ELSE [st EXCEPT !.hare = mapper_run(f, st.hare), !.steps = st.steps + 1]

\* One round of the loop of extract.
ex_step(st, self, f) ==
  ex_body(st, f,
          gcd(to_normal(IF st.hare > self.last_tortoise
                        THEN st.hare - self.last_tortoise
                        ELSE self.last_tortoise - st.hare, self.field),
              self.n))

RECURSIVE ex_loop(_, _, _, _)
ex_loop(st, self, f, k) ==
  CASE st.done -> st
    [] ~st.done /\ k = 0 -> ex_step(st, self, f)
    [] OTHER ->
         LET s1 == ex_loop(st, self, f, k - 1)
             s2 == ex_loop(s1, self, f, k - 1)
             s3 == ex_loop(s2, self, f, k - 1)
             s4 == ex_loop(s3, self, f, k - 1)
             s5 == ex_loop(s4, self, f, k - 1)
             s6 == ex_loop(s5, self, f, k - 1)
             s7 == ex_loop(s6, self, f, k - 1)
         IN CASE s1.done -> s1
              [] s2.done -> s2
              [] s3.done -> s3
              [] s4.done -> s4
              [] s5.done -> s5
              [] s6.done -> s6
              [] s7.done -> s7
              [] OTHER -> ex_loop(s7, self, f, k - 1)

\* PollardRhoCycleConditionCheckerU64::extract
extract(self, f) ==
  ex_loop([hare |-> mapper_run(f, self.last_hare), d |-> 0,
           done |-> FALSE, steps |-> 0], self, f, LoopFuel)

\* The result without "if factor == self { None }".
pr_result_always_some(self, x) ==
  CASE ~x.done -> [kind |-> "Hang", d |-> 0]
    [] OTHER -> [kind |-> "Some", d |-> x.d]

\* "if factor == self { None } else { Some(factor) }", x being the state in
\* which extract ended.
pr_result(self, x) ==
  CASE ~x.done -> [kind |-> "Hang", d |-> 0]
    [] x.done /\ x.d = self -> [kind |-> "None", d |-> 0]
    [] OTHER -> [kind |-> "Some", d |-> x.d]

\* extract on the checker find_cycle returned (e is the state in which
\* find_cycle ended).
pr_extract(self, mapper, e) ==
  IF ~e.done THEN [kind |-> "Hang", d |-> 0]
  ELSE pr_result(self, extract(e.cycle_condition, mapper))

\* find_cycle from the Montgomery form of start.
pr_cycle(self, field, mapper, mstart) ==
  pr_extract(self, mapper,
             find_cycle(mapper, checker_new(field, self, mstart), mstart))

\* pollard_rho once the field of self is set up.
pr_with_field(self, start, constant_increment, field) ==
  pr_cycle(self, field,
           [increment |-> to_montgomery(constant_increment, field),
            field |-> field],
           to_montgomery(start, field))

\* <u64 as PollardRho>::pollard_rho: Some(d), None, or Hang when a loop
\* does not end within the fuel.
pollard_rho(self, start, constant_increment) ==
  pr_with_field(self, start, constant_increment, setup_field(self))

\* The state in which extract, called by pollard_rho, ended its walk: d is
\* the gcd it found.
pr_rewalk_from(mapper, e) == extract(e.cycle_condition, mapper)

pr_rewalk_cycle(self, field, mapper, mstart) ==
  pr_rewalk_from(mapper,
                 find_cycle(mapper, checker_new(field, self, mstart), mstart))

pr_rewalk_field(self, start, constant_increment, field) ==
  pr_rewalk_cycle(self, field,
                  [increment |-> to_montgomery(constant_increment, field),
                   field |-> field],
                  to_montgomery(start, field))

pr_rewalk(self, start, constant_increment) ==
  pr_rewalk_field(self, start, constant_increment, setup_field(self))

\* What pollard_rho returned, and the gcd its call of extract found.
pr_returned(r, x) ==
  [kind |-> r.kind, d |-> r.d, candidate |-> x.d]

\* The steps at which PollardRhoCycleConditionCheckerRug::check computes a
\* gcd: (power - count).keep_bits(max(4, power_count / 2)) == 1
rug_gcd_step(count, power) ==
  LET power_count == trailing_zeros(power)
  IN ((power - count) % Pow2(Max(4, power_count \div 2))) = 1

\* PollardRhoCycleConditionCheckerRug::check once the product of the
\* differences is known.
rug_check_accum(self, tortoise, hare, count, power, accum) ==
  CASE ~rug_gcd_step(count, power) ->
         [self |-> [self EXCEPT !.accum = accum, !.last_tortoise = tortoise],
          ret |-> FALSE]
    [] rug_gcd_step(count, power)
         /\ gcd(to_normal(accum, self.field), self.n) # 1 ->
         [self |-> [self EXCEPT !.accum = accum, !.last_tortoise = tortoise],
          ret |-> TRUE]
    [] OTHER ->
         [self |-> [self EXCEPT !.accum = accum, !.last_tortoise = tortoise,
                                !.last_hare = hare],
          ret |-> FALSE]

\* PollardRhoCycleConditionCheckerRug::check
rug_check(self, tortoise, hare, count, power) ==
  rug_check_accum(self, tortoise, hare, count, power,
                  redc(self.accum,
                       IF hare > tortoise THEN hare - tortoise
                       ELSE tortoise - hare,
                       0, self.field))

\* check of the checker of width w (PollardRhoCycleConditionCheckerU128 is
\* the code of the U64 one on u128).
check_of(w, self, tortoise, hare, count, power) ==
  IF w = "rug" THEN rug_check(self, tortoise, hare, count, power)
  ELSE check(self, tortoise, hare, count, power)

\* Whether that check computes a gcd.
gcd_step_of(w, count, power) ==
  IF w = "rug" THEN rug_gcd_step(count, power) ELSE gcd_step(count, power)

\* One evaluation of the loop condition of find_cycle with the checker of
\* width w and, when the check is false, one run of the loop body.
fc_step_of(w, st, mapper) ==
  fc_body(st, mapper,
          check_of(w, st.cycle_condition, st.tortoise, st.hare, st.count,
                   st.power))

\* The mapper and the start pollard_rho hands to find_cycle.
pr_mapper(constant_increment, field) ==
  [increment |-> to_montgomery(constant_increment, field), field |-> field]

\* find_cycle as pollard_rho calls it, before its first check; with it the
\* last check made (at), whether that check computed a gcd (taken) and
\* recorded last_hare (recorded), and the number of mapper applications that
\* lead from start to last_hare (rec).
walk_init(mapper, field, n, mstart) ==
  [mapper |-> mapper, start |-> mstart,
   fc |-> fc_init(mapper, checker_new(field, n, mstart), mstart),
   at |-> [tortoise |-> mstart, hare |-> mstart, count |-> 0, power |-> 1],
   taken |-> FALSE, recorded |-> FALSE, checks |-> 0, rec |-> 0,
   x |-> [hare |-> 0, d |-> 0, done |-> FALSE, steps |-> 0]]

walk_start(n, start, constant_increment, field) ==
  walk_init(pr_mapper(constant_increment, field), field, n,
            to_montgomery(start, field))

\* The walk after the next check of the loop condition, nx being find_cycle
\* after it.
walk_checked(w, wk, nx) ==
  [wk EXCEPT
     !.fc = nx,
     !.at = [tortoise |-> wk.fc.tortoise, hare |-> wk.fc.hare,
             count |-> wk.fc.count, power |-> wk.fc.power],
     !.taken = gcd_step_of(w, wk.fc.count, wk.fc.power),
     !.recorded = gcd_step_of(w, wk.fc.count, wk.fc.power) /\ ~nx.done,
     !.checks = wk.checks + 1,
     !.rec = IF gcd_step_of(w, wk.fc.count, wk.fc.power) /\ ~nx.done
             THEN wk.fc.power + wk.fc.count ELSE wk.rec]

walk_check(w, wk) == walk_checked(w, wk, fc_step_of(w, wk.fc, wk.mapper))

\* The walk after "e.extract(mapper)".
walk_extract(wk) ==
  [wk EXCEPT !.x = extract(wk.fc.cycle_condition, wk.mapper)]

\* ------------------------------------------------------ quadratic residues

\* <u128 as Redc>::setup_field for odd n: the field of radix R = 2^128.
setup_field_u128(n) ==
  [n |-> n,
   r |-> PowMod(2 % n, 2 * WordBits, n),
   rinv |-> PowMod(((n + 1) \div 2) % n, 2 * WordBits, n)]

\* eulers_criterion(n, p), p odd when it is above 2 (the debug assertion).
eulers_criterion(n, p) ==
  IF n = 0 \/ n = 1 \/ p <= 2 THEN TRUE
  ELSE to_normal(mod_pow(to_montgomery(n, setup_field_u128(p)),
                         (p - 1) \div 2, setup_field_u128(p)),
                 setup_field_u128(p)) = 1

\* "(2..prime_modulus).find(|x| !eulers_criterion(*x, prime_modulus))" from
\* x on: the x found in a one-element sequence, or the empty sequence (None).
RECURSIVE find_non_quad_res(_, _)
find_non_quad_res(x, prime_modulus) ==
  CASE x >= prime_modulus -> <<>>
    [] x < prime_modulus /\ ~eulers_criterion(x, prime_modulus) -> <<x>>
    [] OTHER -> find_non_quad_res(x + 1, prime_modulus)

non_quad_res(prime_modulus) == find_non_quad_res(2, prime_modulus)

\* What tonelli_shanks answers: it panics, or returns r.
Panicked == [panic |-> TRUE, r |-> 0]

Returned(r) == [panic |-> FALSE, r |-> r]

\* "for i in 1..m { temp_t = temp_t.pow(2); if temp_t == one { new_m = i;
\*  break; } }" from i on: new_m, which is 0 when the loop ends unbroken.
RECURSIVE ts_new_m(_, _, _, _, _)
ts_new_m(temp_t, i, m, one, field) ==
  IF i >= m THEN 0
  ELSE IF mod_pow(temp_t, 2, field) = one THEN i
       ELSE ts_new_m(mod_pow(temp_t, 2, field), i + 1, m, one, field)

\* The assignments that end a round, b being c^(2^(m - new_m - 1)).
ts_assign(st, new_m, b, b_squared, field) ==
  [m |-> new_m,
   c |-> b_squared,
   t |-> redc(st.t, b_squared, 0, field),
   r |-> redc(st.r, b, 0, field)]

\* A round whose b is c^(2^(m - new_m)).
ts_body_squared(st, new_m, field) ==
  ts_assign(st, new_m,
            mod_pow(st.c, Pow2(st.m - new_m), field),
            mod_pow(mod_pow(st.c, Pow2(st.m - new_m), field), 2, field),
            field)

\* The body of the while loop after "assert!(new_m < m)".
ts_body(st, new_m, field) ==
  ts_assign(st, new_m,
            mod_pow(st.c, Pow2(st.m - new_m - 1), field),
            mod_pow(mod_pow(st.c, Pow2(st.m - new_m - 1), field), 2, field),
            field)

\* "while t.internal() != &0 && t.internal() != one.internal()" and the
\* return that follows it; new_m is that of the round to come.
RECURSIVE ts_loop(_, _, _)
ts_round(st, new_m, one, field) ==
  IF new_m < st.m THEN ts_loop(ts_body(st, new_m, field), one, field)
  ELSE Panicked

ts_loop(st, one, field) ==
  CASE st.t = 0 -> Returned(0)
    [] st.t # 0 /\ st.t = one -> Returned(to_normal(st.r, field))
    [] OTHER -> ts_round(st, ts_new_m(st.t, 1, st.m, one, field), one, field)

\* tonelli_shanks from "let mut c" on.
ts_general(square_wrapped, s, q, non_quad_wrapped, field) ==
  ts_loop([m |-> s,
           c |-> mod_pow(non_quad_wrapped, q, field),
           t |-> mod_pow(square_wrapped, q, field),
           r |-> mod_pow(square_wrapped, (q \div 2) + 1, field)],
          to_montgomery(1, field), field)

\* tonelli_shanks on the path of prime_modulus % 4 = 1, found being
\* non_quad_res before its unwrap.
ts_unwrapped(square, prime_modulus, found, field) ==
  IF Len(found) = 0 THEN Panicked
  ELSE ts_general(to_montgomery(square, field),
                  trailing_zeros(prime_modulus - 1),
                  (prime_modulus - 1) \div Pow2(trailing_zeros(prime_modulus - 1)),
                  to_montgomery(found[1], field), field)

\* tonelli_shanks(square, prime_modulus), prime_modulus odd when above 2.
tonelli_shanks(square, prime_modulus) ==
  CASE prime_modulus <= 1 -> Returned(0)
    [] prime_modulus = 2 -> Returned(square % 2)
    [] prime_modulus > 2 /\ prime_modulus % 4 = 3 ->
         Returned(to_normal(mod_pow(to_montgomery(square,
                                      setup_field_u128(prime_modulus)),
                                    (prime_modulus \div 4) + 1,
                                    setup_field_u128(prime_modulus)),
                            setup_field_u128(prime_modulus)))
    [] OTHER ->
         ts_unwrapped(square, prime_modulus, non_quad_res(prime_modulus),
                      setup_field_u128(prime_modulus))

\* ------------------------------------------------------------ certificate

\* LucasCertificateElement { n, base, unique_prime_divisors }
LucasCertificateElement(n, base, unique_prime_divisors) ==
  [n |-> n, base |-> base, unique_prime_divisors |-> unique_prime_divisors]

\* LucasCertificate::default(): no elements
LucasCertificate_default == <<>>

\* LucasCertificate::contains: the binary search by n finds i
contains(elements, i) == \E k \in 1..Len(elements) : elements[k].n = i

\* push that inserts in front.
push_front(elements, e) ==
  IF contains(elements, e.n) THEN elements ELSE <<e>> \o elements

\* push that overwrites the element found: "Ok(i) => self.elements[i] = e".
push_replace(elements, e) ==
  IF contains(elements, e.n)
  THEN [k \in DOMAIN elements |->
          IF elements[k].n = e.n THEN e ELSE elements[k]]
  ELSE LET i == Cardinality({k \in 1..Len(elements) : elements[k].n < e.n})
       IN SubSeq(elements, 1, i) \o <<e>> \o SubSeq(elements, i + 1, Len(elements))

\* LucasCertificate::push: the binary search by e.n of the elements (kept
\* sorted by n) answers Ok (nothing is done) or Err(i) (e is inserted at i).
push(elements, e) ==
  IF contains(elements, e.n) THEN elements
  ELSE LET i == Cardinality({k \in 1..Len(elements) : elements[k].n < e.n})
       IN SubSeq(elements, 1, i) \o <<e>> \o SubSeq(elements, i + 1, Len(elements))

\* LucasCertificate::get_max: elements.last().cloned()
get_max(elements) ==
  IF Len(elements) = 0 THEN <<>> ELSE <<elements[Len(elements)]>>

\* PrimalityCertainty::Guaranteed and PrimalityCertainty::Certified(c)
Guaranteed == [kind |-> "Guaranteed", c |-> <<>>]
Certified(c) == [kind |-> "Certified", c |-> c]

\* ----------------------------------------------------------------- events

\* EmptyFactoringEventSubscriptor {} and an observer that records its calls
EmptyFactoringEventSubscriptor == [kind |-> "Empty", log |-> <<>>]
RecordingSubscriptor == [kind |-> "Log", log |-> <<>>]

factorized(events, n, primes, composites, unknown) ==
  IF events.kind = "Empty" THEN events
  ELSE [events EXCEPT !.log = Append(@, [ev |-> "factorized", n |-> n,
          primes |-> primes, composites |-> composites, unknown |-> unknown])]

ev_is_prime(events, n) ==
  IF events.kind = "Empty" THEN events
  ELSE [events EXCEPT !.log = Append(@, [ev |-> "is_prime", n |-> n,
          primes |-> <<>>, composites |-> <<>>, unknown |-> <<>>])]

ev_is_composite(events, n) ==
  IF events.kind = "Empty" THEN events
  ELSE [events EXCEPT !.log = Append(@, [ev |-> "is_composite", n |-> n,
          primes |-> <<>>, composites |-> <<>>, unknown |-> <<>>])]

\* ----------------------------------------------------------------- driver

TRIAL_THRESHHOLD == 4095

\* No dedup.
dedup_none(v) == v

\* Vec::dedup: consecutive repeats removed
RECURSIVE dedup(_)
dedup(v) ==
  IF Len(v) <= 1 THEN v
  ELSE LET d == dedup(Tail(v))
       IN IF Head(v) = Head(d) THEN d ELSE <<Head(v)>> \o d

\* slice::sort_unstable: the elements in ascending order
RECURSIVE insert_sorted(_, _)
insert_sorted(v, x) ==
  IF Len(v) = 0 THEN <<x>>
  ELSE IF x <= Head(v) THEN <<x>> \o v
  ELSE <<Head(v)>> \o insert_sorted(Tail(v), x)

\* No sort.
sort_skipped(v) == v

RECURSIVE sort_unstable(_)
sort_unstable(v) ==
  IF Len(v) = 0 THEN v ELSE insert_sorted(sort_unstable(Tail(v)), Head(v))

\* The match that takes Unknown for Prime.
lw_match_any(st, r) ==
  IF r = "Composite" THEN [st EXCEPT !.panic = TRUE, !.done = TRUE]
  ELSE [st EXCEPT !.witness = st.base, !.done = TRUE]

\* The match on what lucas_primality_test answered for st.base.
lw_match(st, r) ==
  CASE r = "Prime" -> [st EXCEPT !.witness = st.base, !.done = TRUE]
    [] r = "Composite" -> [st EXCEPT !.panic = TRUE, !.done = TRUE]
    [] OTHER -> [st EXCEPT !.base = st.base + 1]

\* One round of "for base in 2.." in certified_prime_check.
lw_step(st, self, factors) ==
  lw_match(st, lucas_primality_test(self, factors, st.base))

RECURSIVE lw_loop(_, _, _, _)
lw_loop(st, self, factors, k) ==
  CASE st.done -> st
    [] ~st.done /\ k = 0 -> lw_step(st, self, factors)
    [] OTHER ->
         LET s1 == lw_loop(st, self, factors, k - 1)
             s2 == lw_loop(s1, self, factors, k - 1)
             s3 == lw_loop(s2, self, factors, k - 1)
             s4 == lw_loop(s3, self, factors, k - 1)
             s5 == lw_loop(s4, self, factors, k - 1)
             s6 == lw_loop(s5, self, factors, k - 1)
             s7 == lw_loop(s6, self, factors, k - 1)
         IN CASE s1.done -> s1
              [] s2.done -> s2
              [] s3.done -> s3
              [] s4.done -> s4
              [] s5.done -> s5
              [] s6.done -> s6
              [] s7.done -> s7
              [] OTHER -> lw_loop(s7, self, factors, k - 1)

\* The search of the witness: "let mut witness = 0; for base in 2.. { ... }"
lucas_witness(self, factors) ==
  lw_loop([base |-> 2, witness |-> 0, done |-> FALSE, panic |-> FALSE],
          self, factors, LoopFuel)

RECURSIVE certified_prime_check(_, _)
RECURSIVE certified_factor(_, _, _)
RECURSIVE certify_slice(_, _, _, _)
RECURSIVE pl_loop(_)

\* A call's outcome: status is "ok" (it returned ret), "panic" or "hang";
\* cert is the caller's certainty after the call; events the observer.
Outcome(status, ret, cert, events) ==
  [status |-> status, ret |-> ret, cert |-> cert, events |-> events]

\* certified_prime_check that answers true and pushes nothing.
cpc_push_nothing(self, cert, factors, w) ==
  Outcome("ok", TRUE, cert, EmptyFactoringEventSubscriptor)

\* The end of certified_prime_check: w is the state in which the search of
\* the witness ended, "certificate.push(LucasCertificateElement { n: self,
\* base: witness, unique_prime_divisors: factors }); true".
cpc_push(self, cert, factors, w) ==
  CASE ~w.done ->
         Outcome("hang", FALSE, cert, EmptyFactoringEventSubscriptor)
    [] w.done /\ w.panic ->
         Outcome("panic", FALSE, cert, EmptyFactoringEventSubscriptor)
    [] OTHER ->
         Outcome("ok", TRUE,
                 Certified(push(cert.c,
                   LucasCertificateElement(self, w.witness, factors))),
                 EmptyFactoringEventSubscriptor)

\* certified_prime_check from "factors.dedup()" on: f is the outcome of
\* (self - 1).certified_factor(..).
cpc_factors(self, f) ==
  IF f.status # "ok"
  THEN Outcome(f.status, FALSE, f.cert, EmptyFactoringEventSubscriptor)
  ELSE cpc_push(self, f.cert, dedup(f.ret),
                lucas_witness(self, dedup(f.ret)))

\* <u64 as CertifiedFactorization>::certified_prime_check
certified_prime_check(self, certificate) ==
  CASE certificate.kind = "Guaranteed" ->
         Outcome("ok", is_prime(self), certificate,
                 EmptyFactoringEventSubscriptor)
    [] certificate.kind = "Certified" /\ contains(certificate.c, self) ->
         Outcome("ok", TRUE, certificate, EmptyFactoringEventSubscriptor)
    [] certificate.kind = "Certified" /\ ~contains(certificate.c, self)
         /\ self = 2 ->
         Outcome("ok", TRUE,
                 Certified(IF ~contains(certificate.c, self)
                           THEN push(certificate.c,
                                     LucasCertificateElement(self, 1, <<1>>))
                           ELSE certificate.c),
                 EmptyFactoringEventSubscriptor)
    [] certificate.kind = "Certified" /\ ~contains(certificate.c, self)
         /\ self # 2 /\ ~is_prime(self) ->
         Outcome("ok", FALSE, certificate, EmptyFactoringEventSubscriptor)
    [] OTHER ->
         cpc_factors(self,
                     certified_factor(self - 1, Certified(certificate.c),
                                      EmptyFactoringEventSubscriptor))

\* The rest of the loop below once the check of pre_processed[i] returned r.
cs_next(pre_processed, i, upto, r) ==
  IF r.status # "ok" THEN r
  ELSE certify_slice(pre_processed, i + 1, upto, r.cert)

\* "for prime_factor in &pre_processed[..upto] { prime_factor
\*  .certified_prime_check(PrimalityCertainty::Certified(*x)); }" from index i
certify_slice(pre_processed, i, upto, certificate) ==
  IF i > upto
  THEN Outcome("ok", TRUE, certificate, EmptyFactoringEventSubscriptor)
  ELSE cs_next(pre_processed, i, upto,
               certified_prime_check(pre_processed[i], certificate))

\* categorize_factor with the two observer calls exchanged.
cat_push_swapped(st, f, r) ==
  CASE r.status # "ok" -> [st EXCEPT !.status = r.status, !.c = r.cert]
    [] r.status = "ok" /\ r.ret ->
         [st EXCEPT !.c = r.cert,
                    !.events = ev_is_composite(st.events, f),
                    !.prime_factors = Append(@, f)]
    [] OTHER ->
         [st EXCEPT !.c = r.cert,
                    !.events = ev_is_prime(st.events, f),
                    !.composite_factors = Append(@, f)]

\* The branches of the closure categorize_factor, r being the outcome of
\* f.certified_prime_check(..).
cat_push(st, f, r) ==
  CASE r.status # "ok" -> [st EXCEPT !.status = r.status, !.c = r.cert]
    [] r.status = "ok" /\ r.ret ->
         [st EXCEPT !.c = r.cert,
                    !.events = ev_is_prime(st.events, f),
                    !.prime_factors = Append(@, f)]
    [] OTHER ->
         [st EXCEPT !.c = r.cert,
                    !.events = ev_is_composite(st.events, f),
                    !.composite_factors = Append(@, f)]

\* categorize_factor that takes every f for a prime, unchecked.
categorize_factor_unchecked(st, f) ==
  IF st.status # "ok" THEN st
  ELSE cat_push(st, f, [status |-> "ok", ret |-> TRUE, cert |-> st.c])

\* The closure categorize_factor of handle_factor, applied to f.
categorize_factor(st, f) ==
  IF st.status # "ok" THEN st
  ELSE cat_push(st, f, certified_prime_check(f, st.c))

\* handle_factor that forgets the cofactor current_factor / f.
handle_factor_one(st, current_factor, f) ==
  categorize_factor(
    [st EXCEPT !.composite_factors = SubSeq(@, 1, Len(@) - 1),
               !.splits = st.splits + 1],
    f)

\* handle_factor(current_factor, f, events, c, composite_factors, prime_factors)
handle_factor(st, current_factor, f) ==
  categorize_factor(
    categorize_factor(
      [st EXCEPT !.composite_factors = SubSeq(@, 1, Len(@) - 1),
                 !.events = factorized(st.events, current_factor, <<>>, <<>>,
                                       <<f, current_factor \div f>>),
                 !.splits = st.splits + 1],
      f),
    current_factor \div f)

\* The match that starts again from the increment one after a split.
pl_match_reset(st, current_factor, one, r) ==
  CASE r.kind = "Some" ->
         [handle_factor(st, current_factor, r.d)
            EXCEPT !.pollard_rho_increment = one]
    [] r.kind = "None" ->
         [st EXCEPT !.pollard_rho_increment = st.pollard_rho_increment + one]
    [] OTHER -> [st EXCEPT !.status = "hang"]

\* The match on what pollard_rho answered for current_factor.
pl_match(st, current_factor, one, r) ==
  CASE r.kind = "Some" -> handle_factor(st, current_factor, r.d)
    [] r.kind = "None" ->
         [st EXCEPT !.pollard_rho_increment = st.pollard_rho_increment + one]
    [] OTHER -> [st EXCEPT !.status = "hang"]

\* One round of the "while let Some(current_factor)" loop of pollard_loop.
pl_round(st, one) ==
  pl_match(st, st.composite_factors[Len(st.composite_factors)], one,
           pollard_rho(st.composite_factors[Len(st.composite_factors)],
                       one + one, st.pollard_rho_increment))

pl_loop(st) ==
  IF st.status # "ok" \/ Len(st.composite_factors) = 0 THEN st
  ELSE pl_loop(pl_round(st, 1))

\* pollard_loop(composite, &1, prime_factors, events, c): the state when the
\* loop is left.
pollard_loop(composite, prime_factors, events, c) ==
  pl_loop([status |-> "ok", pollard_rho_increment |-> 1,
           composite_factors |-> <<composite>>,
           prime_factors |-> prime_factors, events |-> events, c |-> c,
           splits |-> 0])

\* pollard_loop before the first evaluation of "while let Some(..)".
pl_enter(composite, prime_factors, events, c) ==
  [status |-> "ok", pollard_rho_increment |-> 1,
   composite_factors |-> <<composite>>,
   prime_factors |-> prime_factors, events |-> events, c |-> c,
   splits |-> 0]

\* The call "current_factor.clone().pollard_rho(&two, &pollard_rho_increment)"
\* of the round that starts in st, and what it answers.
pl_call(st, one) ==
  [self |-> st.composite_factors[Len(st.composite_factors)],
   start |-> one + one,
   constant_increment |-> st.pollard_rho_increment,
   answer |-> pollard_rho(st.composite_factors[Len(st.composite_factors)],
                          one + one, st.pollard_rho_increment)]

\* "while let Some(current_factor) = composite_factors.last().cloned()":
\* the loop is left on None.
pl_leaves(st) == Len(st.composite_factors) = 0

\* What pollard_loop leaves to its caller: prime_factors, the certificate
\* and the observer (pl is the state in which the loop ended).
pl_left(pl) == Outcome(pl.status, pl.prime_factors, pl.c, pl.events)

\* "prime_factors.sort_unstable(); prime_factors", pl being the state in
\* which pollard_loop ended.
cf_sorted(pl) ==
  IF pl.status # "ok" THEN Outcome(pl.status, <<>>, pl.c, pl.events)
  ELSE Outcome("ok", sort_unstable(pl.prime_factors), pl.c, pl.events)

\* certified_factor after "if exhaustive || ..": last is the outcome of the
\* check of pre_processed.last().
cf_split(self, events, pre_processed, last) ==
  CASE last.status # "ok" -> Outcome(last.status, <<>>, last.cert, events)
    [] last.status = "ok" /\ last.ret ->
         Outcome("ok", pre_processed, last.cert, events)
    [] OTHER ->
         cf_sorted(
           pollard_loop(
             pre_processed[Len(pre_processed)],
             SubSeq(pre_processed, 1, Len(pre_processed) - 1),
             IF Len(pre_processed) > 1
             THEN factorized(events, self,
                             SubSeq(pre_processed, 1, Len(pre_processed) - 1),
                             <<pre_processed[Len(pre_processed)]>>, <<>>)
             ELSE events,
             last.cert))

\* certified_factor that returns the list of trial division as it is.
cf_last_early(self, events, td, c1) ==
  Outcome(c1.status, td.factors, c1.cert, events)

\* certified_factor from "if exhaustive || .." on: c1 is the outcome of the
\* "if let PrimalityCertainty::Certified" block.
cf_last(self, events, td, c1) ==
  CASE c1.status # "ok" -> Outcome(c1.status, <<>>, c1.cert, events)
    [] c1.status = "ok" /\ td.exhaustive ->
         Outcome("ok", td.factors, c1.cert, events)
    [] OTHER ->
         cf_split(self, events, td.factors,
                  certified_prime_check(td.factors[Len(td.factors)], c1.cert))

\* The Certified block taking the last element out of pre_processed ("pop"
\* for "last") before the list is returned.
cf_exhaustive_popped(self, events, td, a) ==
  cf_last(self, events,
          [td EXCEPT !.factors = SubSeq(@, 1, Len(@) - 1), !.exhaustive = TRUE],
          a)

\* "if exhaustive { pre_processed.last().unwrap().certified_prime_check(..) }"
\* of the Certified block, a being the outcome of the loop before it.
cf_exhaustive(self, events, td, a) ==
  CASE a.status # "ok" \/ ~td.exhaustive -> cf_last(self, events, td, a)
    [] a.status = "ok" /\ td.exhaustive /\ Len(td.factors) = 0 ->
         Outcome("panic", <<>>, a.cert, events)
    [] OTHER ->
         cf_last(self, events, td,
                 certified_prime_check(td.factors[Len(td.factors)], a.cert))

\* certified_factor once trial_division returned td.
cf_trial(self, certificate, events, td) ==
  CASE ~td.done -> Outcome("hang", <<>>, certificate, events)
    [] td.done /\ certificate.kind # "Certified" ->
         cf_last(self, events, td, Outcome("ok", TRUE, certificate, events))
    [] OTHER ->
         cf_exhaustive(self, events, td,
                       certify_slice(td.factors, 1,
                                     Max(Len(td.factors) - 1, 0),
                                     certificate))

\* <u64 as CertifiedFactorization>::certified_factor
certified_factor(self, certificate, events) ==
  cf_trial(self, certificate, events, trial_division(self, TRIAL_THRESHHOLD))

\* <u64 as Factoring>::factor_events and the provided Factoring::factor
factor_events(self, events) == certified_factor(self, Guaranteed, events)

factor(self) == factor_events(self, EmptyFactoringEventSubscriptor)

\* generate_lucas_certificate that returns the certificate whatever the
\* check answered.
glc_option_some(r) ==
  IF r.status # "ok" THEN Outcome(r.status, <<>>, r.cert, r.events)
  ELSE Outcome("ok", <<r.cert.c>>, r.cert, r.events)

\* "if self.certified_prime_check(..) { return Some(certificate); } None":
\* r is the outcome of the check on the new certificate.
glc_option(r) ==
  CASE r.status # "ok" -> Outcome(r.status, <<>>, r.cert, r.events)
    [] r.status = "ok" /\ r.ret -> Outcome("ok", <<r.cert.c>>, r.cert, r.events)
    [] OTHER -> Outcome("ok", <<>>, r.cert, r.events)

\* <u64 as Primality>::generate_lucas_certificate: Some(certificate) or None
generate_lucas_certificate(self) ==
  glc_option(certified_prime_check(self, Certified(LucasCertificate_default)))

\* --------------------------------------------- the wider widths, below 2^64

\* The widths of the three implementations.
Widths == {"u64", "u128", "rug"}

\* u128::from(u64) and rug::Integer::from(u128): the same number, wider.
from(x) == x

\* change_element: the element of the narrower width, widened.
change_element(c) ==
  LucasCertificateElement(from(c.n), from(c.base),
                          [k \in DOMAIN c.unique_prime_divisors |->
                             from(c.unique_prime_divisors[k])])

\* What the narrower call leaves in the certificate it was handed through a
\* WrappingLucasCertificate: each pushed element, widened.
wrapped(r) ==
  [r EXCEPT !.cert = [r.cert EXCEPT !.c = [k \in DOMAIN r.cert.c |->
                                             change_element(r.cert.c[k])]]]

\* "factoring_result.into_iter().map(Self::from).collect()"
collected(r) ==
  IF r.status = "ok"
  THEN [wrapped(r) EXCEPT !.ret = [k \in DOMAIN r.ret |-> from(r.ret[k])]]
  ELSE wrapped(r)

\* check_two without its push of the element for 2.
check_two_no_push(n, certificate) ==
  CASE n % 2 # 0 -> [some |-> FALSE, ret |-> FALSE, cert |-> certificate]
    [] n % 2 = 0 /\ n # 2 -> [some |-> TRUE, ret |-> FALSE, cert |-> certificate]
    [] OTHER -> [some |-> TRUE, ret |-> TRUE, cert |-> certificate]

\* check_two(n, certificate): None, Some(false) or Some(true), and the
\* certificate after it.
check_two(n, certificate) ==
  CASE n % 2 # 0 -> [some |-> FALSE, ret |-> FALSE, cert |-> certificate]
    [] n % 2 = 0 /\ n # 2 -> [some |-> TRUE, ret |-> FALSE, cert |-> certificate]
    [] OTHER ->
         [some |-> TRUE, ret |-> TRUE,
          cert |-> IF certificate.kind = "Certified"
                      /\ ~contains(certificate.c, n)
                   THEN Certified(push(certificate.c,
                                       LucasCertificateElement(n, 1, <<1>>)))
                   ELSE certificate]

\* <u128 as CertifiedFactorization>::certified_factor for self < 2^64 (every
\* number of this model): the u64 call on the wrapped certificate and observer.
u128_certified_factor(self, certificate, events) ==
  collected(certified_factor(self, certificate, events))

\* <u128 as CertifiedFactorization>::certified_prime_check for self < 2^64,
\* t being what check_two answered.
u128_cpc_checked(self, t) ==
  IF t.some
  THEN Outcome("ok", t.ret, t.cert, EmptyFactoringEventSubscriptor)
  ELSE wrapped(certified_prime_check(self, t.cert))

u128_certified_prime_check(self, certificate) ==
  u128_cpc_checked(self, check_two(self, certificate))

\* <rug::Integer as CertifiedFactorization>::certified_factor for self < 2^128
rug_certified_factor(self, certificate, events) ==
  collected(u128_certified_factor(self, certificate, events))

\* <rug::Integer as CertifiedFactorization>::certified_prime_check for
\* self < 2^128, t being what check_two answered.
rug_cpc_checked(self, t) ==
  IF t.some
  THEN Outcome("ok", t.ret, t.cert, EmptyFactoringEventSubscriptor)
  ELSE wrapped(u128_certified_prime_check(self, t.cert))

rug_certified_prime_check(self, certificate) ==
  rug_cpc_checked(self, check_two(self, certificate))

\* CertifiedFactorization::certified_factor of the width w
certified_factor_of(w, self, certificate, events) ==
  CASE w = "u64" -> certified_factor(self, certificate, events)
    [] w = "u128" -> u128_certified_factor(self, certificate, events)
    [] OTHER -> rug_certified_factor(self, certificate, events)

\* certified_prime_check of the width w that answers false for a number its
\* certificate contains.
cpc_of_contained_false(w, self, certificate) ==
  CASE certificate.kind = "Certified" /\ contains(certificate.c, self) ->
         Outcome("ok", FALSE, certificate, EmptyFactoringEventSubscriptor)
    [] certificate.kind = "Certified" /\ ~contains(certificate.c, self)
         /\ w = "u64" -> certified_prime_check(self, certificate)
    [] certificate.kind = "Certified" /\ ~contains(certificate.c, self)
         /\ w = "u128" -> u128_certified_prime_check(self, certificate)
    [] certificate.kind = "Certified" /\ ~contains(certificate.c, self)
         /\ w = "rug" -> rug_certified_prime_check(self, certificate)
    [] OTHER -> certified_prime_check(self, certificate)

\* CertifiedFactorization::certified_prime_check of the width w
certified_prime_check_of(w, self, certificate) ==
  CASE w = "u64" -> certified_prime_check(self, certificate)
    [] w = "u128" -> u128_certified_prime_check(self, certificate)
    [] OTHER -> rug_certified_prime_check(self, certificate)

\* Factoring::factor_events and Factoring::factor of the width w
factor_events_of(w, self, events) ==
  certified_factor_of(w, self, Guaranteed, events)

factor_of(w, self) == factor_events_of(w, self, EmptyFactoringEventSubscriptor)

\* Primality::is_prime of the width w: the wider widths call the u64 test
\* for self < 2^64.
is_prime_of(w, self) == is_prime(self)

\* Primality::generate_lucas_certificate of the width w
generate_lucas_certificate_of(w, self) ==
  glc_option(certified_prime_check_of(w, self,
                                      Certified(LucasCertificate_default)))

\* ------------------------------------------------------------ the client

\* Inputs above the reach of exhaustive trial division (residuals beyond
\* 4098^2) and one strong pseudoprime to base 2:
\*   2047 = 23 * 89             strong pseudoprime to base 2
\*   16900321 = 4111^2          16966097 = 4111 * 4127
\*   17040383 = 4127 * 4129     (the split finds the larger prime first)
\*   18867509 = 4177 * 4517     (no split with increment 1)
\*   30881551 = 4201 * 7351     strong pseudoprime to base 2
\*   50898291 = 3 * 4111 * 4127     33932194 = 2 * 4111 * 4127
\*   16900337 prime             33800674 = 2 * 16900337
\*   35116163 prime, 35116162 = 2 * 4111 * 4271
HardInputs ==
  {2047, 16900321, 16966097, 17040383, 18867509, 30881551, 50898291,
   33932194, 16900337, 33800674, 35116163}

Inputs == (1..MaxSmall) \cup HardInputs

\* Composites handed to pollard_loop directly.  A residual of trial division
\* has no prime factor below 4099, so one with three prime factors is at
\* least 4099^3 > 2^32; the loop, which does not depend on the size of its
\* number, is run here on smaller products of three and four primes:
\*   343 = 7^3    1001 = 7 * 11 * 13    3289 = 11 * 13 * 23
\*   4199 = 13 * 17 * 19    17017 = 7 * 11 * 13 * 17
LoopInputs == {343, 1001, 3289, 4199, 17017}

VARIABLES
  op,       \* the last call: "none" before the first
  width,    \* the width of the number it was made on
  arg,      \* its number
  certainty,\* "Guaranteed" or "Certified"
  status,   \* "ok" (it returned), "panic" or "hang"
  ret,      \* what it returned
  cert,     \* the caller's LucasCertificate: its elements
  events,   \* the calls the caller's observer received, in order
  fresh,    \* the certificate was empty when the call was made
  reuse     \* calls made on the certificate after the first

vars == <<op, width, arg, certainty, status, ret, cert, events, fresh, reuse>>

Init ==
  /\ op = "none"
  /\ width = "u64"
  /\ arg = 0
  /\ certainty = "Guaranteed"
  /\ status = "ok"
  /\ ret = <<>>
  /\ cert = LucasCertificate_default
  /\ events = <<>>
  /\ fresh = TRUE
  /\ reuse = 0

\* The call name on n of width w returned (or failed as) r.
Returns(name, w, n, kind, r) ==
  /\ op' = name
  /\ width' = w
  /\ arg' = n
  /\ certainty' = kind
  /\ status' = r.status
  /\ ret' = r.ret
  /\ cert' = r.cert.c
  /\ events' = r.events.log
  /\ fresh' = (Len(cert) = 0)
  /\ reuse' = IF op = "none" THEN 0 ELSE reuse + 1

\* The first call of a client, or a further call on its filled certificate.
MayCertify(w, n) ==
  \/ op = "none"
  \/ /\ op \in {"certified_factor", "certified_prime_check"}
     /\ certainty = "Certified"
     /\ status = "ok"
     /\ width = w
     /\ reuse < MaxReuse
     /\ n <= MaxReuseInput

\* n.factor()
Factor ==
  \E w \in Widths, n \in Inputs :
    /\ op = "none"
    /\ Returns("factor", w, n, "Guaranteed", factor_of(w, n))

\* n.factor_events(observer)
FactorEvents ==
  \E w \in Widths, n \in Inputs :
    /\ op = "none"
    /\ Returns("factor_events", w, n, "Guaranteed",
               factor_events_of(w, n, RecordingSubscriptor))

\* n.is_prime()
IsPrime ==
  \E w \in Widths, n \in Inputs \ {1} :
    /\ op = "none"
    /\ Returns("is_prime", w, n, "Guaranteed",
               Outcome("ok", is_prime_of(w, n), Guaranteed,
                       EmptyFactoringEventSubscriptor))

\* n.generate_lucas_certificate()
GenerateLucasCertificate ==
  \E w \in Widths, n \in Inputs \ {1} :
    /\ op = "none"
    /\ Returns("generate_lucas_certificate", w, n, "Certified",
               generate_lucas_certificate_of(w, n))

\* n.certified_factor(PrimalityCertainty::Guaranteed, observer)
CertifiedFactorGuaranteed ==
  \E w \in Widths, n \in Inputs :
    /\ op = "none"
    /\ Returns("certified_factor", w, n, "Guaranteed",
               certified_factor_of(w, n, Guaranteed, RecordingSubscriptor))

\* n.certified_factor(PrimalityCertainty::Certified(&mut cert), observer)
CertifiedFactorCertified ==
  \E w \in Widths, n \in Inputs :
    /\ MayCertify(w, n)
    /\ Returns("certified_factor", w, n, "Certified",
               certified_factor_of(w, n, Certified(cert), RecordingSubscriptor))

\* n.certified_prime_check(PrimalityCertainty::Guaranteed)
CertifiedPrimeCheckGuaranteed ==
  \E w \in Widths, n \in Inputs \ {1} :
    /\ op = "none"
    /\ Returns("certified_prime_check", w, n, "Guaranteed",
               certified_prime_check_of(w, n, Guaranteed))

\* n.certified_prime_check(PrimalityCertainty::Certified(&mut cert))
CertifiedPrimeCheckCertified ==
  \E w \in Widths, n \in Inputs \ {1} :
    /\ MayCertify(w, n)
    /\ Returns("certified_prime_check", w, n, "Certified",
               certified_prime_check_of(w, n, Certified(cert)))

\* pollard_loop(composite, &1, &mut prime_factors, observer, c) on an empty
\* prime_factors: ret is prime_factors when the loop is left.
PollardLoop ==
  \E n \in LoopInputs, c \in {Guaranteed, Certified(LucasCertificate_default)} :
    /\ op = "none"
    /\ Returns("pollard_loop", "u64", n, c.kind,
               pl_left(pollard_loop(n, <<>>, RecordingSubscriptor, c)))

Next ==
  \/ Factor
  \/ FactorEvents
  \/ IsPrime
  \/ GenerateLucasCertificate
  \/ CertifiedFactorGuaranteed
  \/ CertifiedFactorCertified
  \/ CertifiedPrimeCheckGuaranteed
  \/ CertifiedPrimeCheckCertified
  \/ PollardLoop

Spec == Init /\ [][Next]_vars

\* ------------------------------------------------------------ properties

\* Numbers of the model are below SqrtBound^2.
SqrtBound == 8192

Min(a, b) == IF a < b THEN a ELSE b

\* n is a prime number (by division, for n < SqrtBound^2).
IsPrimeNat(n) ==
  /\ n >= 2
  /\ \A d \in 2..Min(n - 1, SqrtBound) : d * d > n \/ n % d # 0

RECURSIVE Product(_)
Product(s) == IF Len(s) = 0 THEN 1 ELSE Head(s) * Product(Tail(s))

Count(s, x) == Cardinality({k \in DOMAIN s : s[k] = x})

\* The same elements, each as often.
SameElements(s, t) ==
  /\ Len(s) = Len(t)
  /\ \A k \in DOMAIN s : Count(s, s[k]) = Count(t, s[k])

NonDecreasing(s) == \A i, j \in DOMAIN s : i < j => s[i] <= s[j]

StrictlyAscending(s) == \A i, j \in DOMAIN s : i < j => s[i] < s[j]

MaxOf(s) == CHOOSE m \in {s[k] : k \in DOMAIN s} : \A k \in DOMAIN s : s[k] <= m

\* m with every factor p taken out (p > 1).
RECURSIVE StripPrime(_, _)
StripPrime(m, p) == IF m % p = 0 THEN StripPrime(m \div p, p) ELSE m

\* m with every factor of every listed prime taken out.
RECURSIVE Leftover(_, _)
Leftover(m, ps) ==
  IF Len(ps) = 0 THEN m ELSE Leftover(StripPrime(m, Head(ps)), Tail(ps))

FactorOps == {"factor", "factor_events", "certified_factor"}

\* The numbers the observer was told are prime, in the order it was told.
RECURSIVE ReportedPrime(_)
ReportedPrime(ev) ==
  IF Len(ev) = 0 THEN <<>>
  ELSE IF Head(ev).ev = "is_prime"
  THEN <<Head(ev).n>> \o ReportedPrime(Tail(ev))
  ELSE ReportedPrime(Tail(ev))

\* The primes trial division had found when the composite residual was
\* reported.
TrialPrimes(ev, n) ==
  IF Len(ev) > 0 /\ ev[1].ev = "factorized" /\ ev[1].n = n
     /\ Len(ev[1].composites) = 1
  THEN ev[1].primes ELSE <<>>

\* A Pollard-Rho split was reported: factorized(n, [], [], [f, n / f]).
SplitReported ==
  \E k \in DOMAIN events :
    events[k].ev = "factorized" /\ Len(events[k].unknown) = 2

\* C1: for every N >= 2, in every width, the product of the list returned
\* by factor, factor_events and certified_factor (either certainty) is N.
C1_ProductIsN ==
  (op \in FactorOps /\ arg >= 2) => (status = "ok" /\ Product(ret) = arg)

\* A list of three primes, two of them parts of a reported Pollard-Rho split.
C1_SplitMultiplied ==
  /\ op = "certified_factor" /\ width = "rug" /\ certainty = "Certified"
  /\ status = "ok" /\ SplitReported
  /\ Len(ret) = 3 /\ Product(ret) = arg

\* C2: for every N >= 2 every element of the returned list is prime; after a
\* split the list holds the primes of trial division and the numbers the
\* prime check answered true for (reported is_prime), and every part
\* reported composite is split again (the same of the list pollard_loop
\* leaves).
C2_AllPrime ==
  (op \in FactorOps \cup {"pollard_loop"} /\ arg >= 2) =>
    /\ status = "ok"
    /\ \A k \in DOMAIN ret : IsPrimeNat(ret[k])
    /\ SplitReported =>
         SameElements(ret, TrialPrimes(events, arg) \o ReportedPrime(events))
    /\ \A k \in DOMAIN events :
         events[k].ev = "is_composite" =>
           \E j \in DOMAIN events :
             /\ j > k /\ events[j].ev = "factorized"
             /\ events[j].n = events[k].n /\ Len(events[j].unknown) = 2

\* A part of a split was reported composite, pushed back and split again:
\* the list holds primes only, and their product is the number.
C2_CompositePushedBack ==
  /\ op = "pollard_loop" /\ status = "ok"
  /\ \E k \in DOMAIN events :
       /\ events[k].ev = "is_composite"
       /\ \E j \in DOMAIN events :
            /\ j > k /\ events[j].ev = "factorized"
            /\ events[j].n = events[k].n
  /\ Len(ret) >= 3 /\ Product(ret) = arg
  /\ \A k \in DOMAIN ret : IsPrimeNat(ret[k])

\* C3: for every N >= 2 the returned list is in non-decreasing order, on the
\* early return of the trial-division list and on the sorted return after
\* the Pollard-Rho loop.
C3_NonDecreasing ==
  (op \in FactorOps /\ arg >= 2) => (status = "ok" /\ NonDecreasing(ret))

\* The loop found the greater prime first, and the list returned is sorted.
C3_SortedAfterSplit ==
  /\ op = "factor_events" /\ width = "u64" /\ status = "ok" /\ SplitReported
  /\ ~NonDecreasing(ReportedPrime(events))
  /\ NonDecreasing(ret)

\* C4: for 2 <= N, is_prime(N) is true exactly when N is prime, and exactly
\* when factor(N) = [N].
C4_IsPrimeExact ==
  (op = "is_prime" /\ arg >= 2) =>
    /\ status = "ok"
    /\ ret = IsPrimeNat(arg)
    /\ ret = (factor_of(width, arg).ret = <<arg>>)

\* A composite that passes Miller-Rabin to base 2 is answered false.
C4_PseudoprimeRejected ==
  /\ op = "is_prime" /\ width = "u128"
  /\ miller_rabin(arg, 2) = "MaybePrime" /\ ~IsPrimeNat(arg)
  /\ ret = FALSE

\* C5: the factorization of 1 returns the empty list, without failing,
\* through factor, factor_events and certified_factor with either certainty,
\* in every width.
C5_OneIsEmpty ==
  (op \in FactorOps /\ arg = 1) => (status = "ok" /\ ret = <<>>)

\* C6: certified_factor(N, Certified(c), events) with N >= 2 and c empty
\* returns a list L with every p of L the n of an element of c, and
\* c.get_max().n = max(L).
C6_FactorsCertified ==
  (op = "certified_factor" /\ certainty = "Certified" /\ fresh /\ arg >= 2) =>
    /\ status = "ok"
    /\ \A k \in DOMAIN ret : contains(cert, ret[k])
    /\ Len(ret) > 0
    /\ get_max(cert) # <<>>
    /\ get_max(cert)[1].n = MaxOf(ret)

\* The primes of a Pollard-Rho split and a prime of trial division are in
\* the certificate, the greatest of them last.
C6_SplitCertified ==
  /\ op = "certified_factor" /\ certainty = "Certified" /\ fresh
  /\ status = "ok" /\ SplitReported /\ Len(ret) = 3
  /\ \A k \in DOMAIN ret : contains(cert, ret[k])
  /\ get_max(cert)[1].n = ret[3]

\* C7: every element e of the certificate with e.n > 2 has
\* e.base^(e.n - 1) = 1 (mod e.n) and, for every p of
\* e.unique_prime_divisors, e.base^((e.n - 1) / p) # 1 (mod e.n).
C7_LucasCongruences ==
  \A k \in DOMAIN cert :
    cert[k].n > 2 =>
      /\ cert[k].base >= 1 /\ cert[k].base < cert[k].n
      /\ PowMod(cert[k].base, cert[k].n - 1, cert[k].n) = 1
      /\ \A i \in DOMAIN cert[k].unique_prime_divisors :
           /\ cert[k].unique_prime_divisors[i] >= 1
           /\ PowMod(cert[k].base,
                     (cert[k].n - 1) \div cert[k].unique_prime_divisors[i],
                     cert[k].n) # 1

\* An element whose witness is not the first base tried: base 2 fails for
\* one of at least two prime divisors of n - 1.
C7_LaterBase ==
  \E k \in DOMAIN cert :
    /\ cert[k].n > 2 /\ cert[k].base > 2
    /\ Len(cert[k].unique_prime_divisors) >= 2
    /\ PowMod(cert[k].base, cert[k].n - 1, cert[k].n) = 1
    /\ \E i \in DOMAIN cert[k].unique_prime_divisors :
         PowMod(2, (cert[k].n - 1) \div cert[k].unique_prime_divisors[i],
                cert[k].n) = 1

\* C8: for every element e with e.n > 2, every p of
\* e.unique_prime_divisors is greater than 1 and is the n of an element
\* placed before e in the same certificate.
C8_DivisorsEarlier ==
  \A k \in DOMAIN cert :
    cert[k].n > 2 =>
      \A i \in DOMAIN cert[k].unique_prime_divisors :
        /\ cert[k].unique_prime_divisors[i] > 1
        /\ \E j \in 1..(k - 1) :
             cert[j].n = cert[k].unique_prime_divisors[i]

\* An element with three prime divisors, each certified before it.
C8_ThreeEarlier ==
  \E k \in DOMAIN cert :
    /\ cert[k].n > 2
    /\ Len(cert[k].unique_prime_divisors) >= 3
    /\ \A i \in DOMAIN cert[k].unique_prime_divisors :
         \E j \in 1..(k - 1) : cert[j].n = cert[k].unique_prime_divisors[i]

\* C9: for every element e with e.n > 2, e.unique_prime_divisors is strictly
\* ascending, every listed p divides e.n - 1, and dividing e.n - 1 by the
\* listed primes as often as they divide leaves 1.
C9_DivisorsComplete ==
  \A k \in DOMAIN cert :
    cert[k].n > 2 =>
      /\ StrictlyAscending(cert[k].unique_prime_divisors)
      /\ \A i \in DOMAIN cert[k].unique_prime_divisors :
           /\ cert[k].unique_prime_divisors[i] > 1
           /\ (cert[k].n - 1) % cert[k].unique_prime_divisors[i] = 0
      /\ Leftover(cert[k].n - 1, cert[k].unique_prime_divisors) = 1

\* An element whose n - 1 has a repeated prime factor, listed once.
C9_RepeatListedOnce ==
  \E k \in DOMAIN cert :
    /\ cert[k].n > 2
    /\ Len(cert[k].unique_prime_divisors) >= 2
    /\ StrictlyAscending(cert[k].unique_prime_divisors)
    /\ \E i \in DOMAIN cert[k].unique_prime_divisors :
         /\ cert[k].unique_prime_divisors[i] > 1
         /\ (cert[k].n - 1) % (cert[k].unique_prime_divisors[i]
                                * cert[k].unique_prime_divisors[i]) = 0

\* C10: for every n >= 2, generate_lucas_certificate(n) is none exactly when
\* n is composite; a certificate returned has n as the n of its greatest
\* element, the greatest element certified_prime_check(n, Certified(c))
\* leaves in an empty c.
C10_CertificateIffPrime ==
  (op = "generate_lucas_certificate" /\ arg >= 2) =>
    /\ status = "ok"
    /\ (ret = <<>>) = ~IsPrimeNat(arg)
    /\ ret # <<>> =>
         /\ get_max(ret[1]) # <<>>
         /\ get_max(ret[1])[1].n = arg
         /\ get_max(ret[1]) =
              get_max(certified_prime_check_of(
                        width, arg, Certified(LucasCertificate_default)).cert.c)

\* The certificate of a prime beyond the reach of trial division, whose
\* n - 1 was split by Pollard's Rho.
C10_LargePrimeCertified ==
  /\ op = "generate_lucas_certificate" /\ status = "ok"
  /\ arg > TRIAL_THRESHHOLD * TRIAL_THRESHHOLD
  /\ ret # <<>>
  /\ get_max(ret[1])[1].n = arg
  /\ Len(get_max(ret[1])[1].unique_prime_divisors) = 3

\* ------------------------------------------- the functions, one at a time

\* The specifications below apply one function of the library to inputs
\* drawn from bounded sets: op names the function, arg holds its inputs and
\* ret what it returned.  In CertificateSpec a LucasCertificate is pushed to
\* several times; cert holds its elements and events the pushes made so far,
\* in order.

\* The caller applied the function name to a and got r.
Applied(name, a, r) ==
  /\ op' = name
  /\ arg' = a
  /\ ret' = r
  /\ status' = "ok"
  /\ UNCHANGED <<width, certainty, cert, events, fresh, reuse>>

\* Pushes made on one certificate.
MaxPushes == 4

\* The n of the pushed elements: 1..MaxPushN.
MaxPushN == 3

\* The elements pushed: for each n two, of different base and divisors.
PushElements ==
  {LucasCertificateElement(n, b, <<b>>) : n \in 1..MaxPushN, b \in 1..2}

\* certificate.push(e)
Push ==
  \E e \in PushElements :
    /\ op \in {"none", "push"}
    /\ Len(events) < MaxPushes
    /\ op' = "push"
    /\ arg' = e.n
    /\ ret' = <<>>
    /\ status' = "ok"
    /\ cert' = push(cert, e)
    /\ events' = Append(events, e)
    /\ UNCHANGED <<width, certainty, fresh, reuse>>

\* miller_rabin is applied to every N in 2..MaxMillerRabin.
MaxMillerRabin == 48

\* Its bases: 0..MaxMillerRabinBase (below N, multiples of N, above N) and
\* the bases is_prime asks.
MaxMillerRabinBase == 60

MillerRabinBases ==
  (0..MaxMillerRabinBase) \cup {REQ_PRIMES[i] : i \in DOMAIN REQ_PRIMES}

\* n.miller_rabin(b)
MillerRabin ==
  /\ op = "none"
  /\ \E n \in 2..MaxMillerRabin, b \in MillerRabinBases :
       Applied("miller_rabin", <<n, b>>, miller_rabin(n, b))

\* lucas_primality_test is applied to every odd N in 3..MaxLucas.
MaxLucas == 73

\* The lists of divisors handed to it (they need not divide N - 1).
LucasDivisors == {<<>>, <<3>>, <<5, 2>>, <<2, 5, 7>>}

\* n.lucas_primality_test(&divisors, b), for the bases below n
LucasPrimalityTest ==
  /\ op = "none"
  /\ \E n \in 3..MaxLucas, d \in LucasDivisors :
       \E b \in 0..(n - 1) :
         /\ n % 2 = 1
         /\ Applied("lucas_primality_test", <<n, d, b>>,
                    lucas_primality_test(n, d, b))

\* The pushes on one certificate.
CertificateNext ==
  \/ Push

CertificateSpec == Init /\ [][CertificateNext]_vars

\* The primality tests, each applied once.
PrimalityNext ==
  \/ MillerRabin
  \/ LucasPrimalityTest

PrimalitySpec == Init /\ [][PrimalityNext]_vars

\* gcd is applied to every pair of 0..MaxGcd.
MaxGcd == 24

\* u64::gcd(u, v)
Gcd ==
  /\ op = "none"
  /\ \E u \in 0..MaxGcd, v \in 0..MaxGcd :
       Applied("gcd", <<u, v>>, gcd(u, v))

\* The widths integer_square_root is applied in: u8 and u16, every value.
SqrtWidths == {8, 16}

\* n.integer_square_root() for n of w bits
IntegerSquareRoot ==
  /\ op = "none"
  /\ \E w \in SqrtWidths :
       \E n \in 0..(Pow2(w) - 1) :
         Applied("integer_square_root", <<n, w>>,
                 p_integer_square_root_w(n, w))

\* trial_division is applied to every n of 1..MaxTrial with every bound of
\* 0..MaxTrialBound and with the bound the driver uses.
MaxTrial == 400
MaxTrialBound == 13
TrialBounds == (0..MaxTrialBound) \cup {TRIAL_THRESHHOLD}

\* n.trial_division(&inclusive_bound)
TrialDivision ==
  /\ op = "none"
  /\ \E n \in 1..MaxTrial, inclusive_bound \in TrialBounds :
       Applied("trial_division", <<n, inclusive_bound>>,
               td_returned(trial_division(n, inclusive_bound),
                           td_return(n, inclusive_bound)))

UtilNext ==
  \/ Gcd
  \/ IntegerSquareRoot
  \/ TrialDivision

UtilSpec == Init /\ [][UtilNext]_vars

\* pollard_rho is applied to every odd composite of 9..MaxRho with every
\* start of 0..MaxRhoStart and every increment of 0..MaxRhoIncrement.
MaxRho == 150
MaxRhoStart == 3
MaxRhoIncrement == 3

\* n.pollard_rho(&start, &constant_increment)
PollardRho ==
  /\ op = "none"
  /\ \E n \in 9..MaxRho, start \in 0..MaxRhoStart,
        constant_increment \in 0..MaxRhoIncrement :
       /\ n % 2 = 1
       /\ ~IsPrimeNat(n)
       /\ Applied("pollard_rho", <<n, start, constant_increment>>,
                  pr_returned(pollard_rho(n, start, constant_increment),
                              pr_rewalk(n, start, constant_increment)))

RhoNext ==
  \/ PollardRho

RhoSpec == Init /\ [][RhoNext]_vars

\* find_cycle is run, check by check, on these odd composites, with the
\* start 2 of the driver and the increments of 1..MaxWalkIncrement, for at
\* most MaxChecks checks:
\*   9 = 3^2   1001 = 7 * 11 * 13   2047 = 23 * 89   10403 = 101 * 103
\*   1018081 = 1009^2   16966097 = 4111 * 4127
WalkInputs == {9, 1001, 2047, 10403, 1018081, 16966097}
MaxWalkIncrement == 2
MaxChecks == 200

\* find_cycle(mapper, checker, start) is entered
FindCycle ==
  /\ op = "none"
  /\ \E w \in Widths, n \in WalkInputs,
        constant_increment \in 1..MaxWalkIncrement :
       /\ op' = "find_cycle"
       /\ width' = w
       /\ arg' = <<n, 2, constant_increment>>
       /\ ret' = walk_start(n, 2, constant_increment, setup_field(n))
       /\ UNCHANGED <<certainty, status, cert, events, fresh, reuse>>

\* "while !cycle_condition.check(..) { .. }": one check and, when it is
\* false, the loop body
Check ==
  /\ op = "find_cycle"
  /\ ~ret.fc.done
  /\ ret.checks < MaxChecks
  /\ ret' = walk_check(width, ret)
  /\ UNCHANGED <<op, width, arg, certainty, status, cert, events, fresh, reuse>>

\* "let d = e.extract(mapper)"
Extract ==
  /\ op = "find_cycle"
  /\ ret.fc.done
  /\ op' = "extract"
  /\ ret' = walk_extract(ret)
  /\ UNCHANGED <<width, arg, certainty, status, cert, events, fresh, reuse>>

WalkNext ==
  \/ FindCycle
  \/ Check
  \/ Extract

WalkSpec == Init /\ [][WalkNext]_vars

\* pollard_loop is run, round by round, on these composites, with the
\* prime_factors of LoopPrimes already found, for at most MaxRounds rounds:
\*   9 = 3^2   125 = 5^3   825 = 3 * 5^2 * 11   1155 = 3 * 5 * 7 * 11
\*   2047 = 23 * 89   10403 = 101 * 103   18867509 = 4177 * 4517
\* and the products of three and four primes of LoopInputs.
LoopEntries == LoopInputs \cup {9, 125, 825, 1155, 2047, 10403, 18867509}
LoopPrimes == {<<>>, <<2>>, <<2, 3, 3>>}
MaxRounds == 12

\* pollard_loop(composite, &1, &mut prime_factors, events, c) is entered
LoopEnter ==
  /\ op = "none"
  /\ \E composite \in LoopEntries, prime_factors \in LoopPrimes,
        c \in {Guaranteed, Certified(LucasCertificate_default)} :
       /\ op' = "pollard_loop"
       /\ arg' = composite * Product(prime_factors)
       /\ certainty' = c.kind
       /\ ret' = [st |-> pl_enter(composite, prime_factors,
                                  RecordingSubscriptor, c),
                  call |-> [self |-> 0, start |-> 0, constant_increment |-> 0,
                            answer |-> [kind |-> "none", d |-> 0]],
                  rounds |-> 0]
       /\ UNCHANGED <<width, status, cert, events, fresh, reuse>>

\* One round of "while let Some(current_factor) = .. { match .. }"
LoopRound ==
  /\ op = "pollard_loop"
  /\ ret.st.status = "ok"
  /\ ~pl_leaves(ret.st)
  /\ ret.rounds < MaxRounds
  /\ ret' = [st |-> pl_round(ret.st, 1), call |-> pl_call(ret.st, 1),
             rounds |-> ret.rounds + 1]
  /\ status' = pl_round(ret.st, 1).status
  /\ UNCHANGED <<op, width, arg, certainty, cert, events, fresh, reuse>>

\* The loop is left: composite_factors.last() is None
LoopLeave ==
  /\ op = "pollard_loop"
  /\ ret.st.status = "ok"
  /\ pl_leaves(ret.st)
  /\ op' = "pollard_loop_left"
  /\ cert' = ret.st.c.c
  /\ events' = ret.st.events.log
  /\ UNCHANGED <<width, arg, certainty, status, ret, fresh, reuse>>

LoopNext ==
  \/ LoopEnter
  \/ LoopRound
  \/ LoopLeave

LoopSpec == Init /\ [][LoopNext]_vars

\* eulers_criterion and tonelli_shanks are applied to every prime modulus of
\* 2..MaxResidue (and to the modulus 1) with every number below the modulus.
MaxResidue == 260

ResidueModuli == {p \in 1..MaxResidue : p = 1 \/ IsPrimeNat(p)}

\* eulers_criterion(n, p)
EulersCriterion ==
  /\ op = "none"
  /\ \E p \in ResidueModuli :
       \E n \in 0..(p - 1) :
         Applied("eulers_criterion", <<n, p>>, eulers_criterion(n, p))

\* tonelli_shanks(square, prime_modulus)
TonelliShanks ==
  /\ op = "none"
  /\ \E prime_modulus \in ResidueModuli :
       \E square \in 0..(prime_modulus - 1) :
         Applied("tonelli_shanks", <<square, prime_modulus>>,
                 tonelli_shanks(square, prime_modulus))

ResidueNext ==
  \/ EulersCriterion
  \/ TonelliShanks

ResidueSpec == Init /\ [][ResidueNext]_vars

\* The first element pushed with n = i (one was).
FirstPushed(i) ==
  events[CHOOSE k \in DOMAIN events :
           /\ events[k].n = i
           /\ \A j \in 1..(k - 1) : events[j].n # i]

\* C11: after any sequence of pushes on an empty LucasCertificate the
\* elements are in strictly increasing order of n; the element kept for an n
\* is the first one pushed with it (a later push with that n changes
\* nothing); contains(i) is true exactly when an element with n = i was
\* pushed; get_max is the element with the greatest n.
C11_PushKeepsOrder ==
  (op \in {"none", "push"}) =>
    /\ \A i, j \in DOMAIN cert : i < j => cert[i].n < cert[j].n
    /\ \A k \in DOMAIN cert :
         /\ \E j \in DOMAIN events : events[j].n = cert[k].n
         /\ cert[k] = FirstPushed(cert[k].n)
    /\ \A i \in 0..(MaxPushN + 1) :
         contains(cert, i) = (\E j \in DOMAIN events : events[j].n = i)
    /\ (get_max(cert) = <<>>) = (Len(events) = 0)
    /\ Len(events) > 0 =>
         /\ \E j \in DOMAIN events : events[j] = get_max(cert)[1]
         /\ \A j \in DOMAIN events : events[j].n <= get_max(cert)[1].n

\* An n pushed a second time with another base, after a greater n, and
\* before a smaller one: three elements, the first base kept.
C11_RepeatedPushIgnored ==
  /\ op = "push" /\ Len(events) = 4 /\ Len(cert) = 3
  /\ events[1].n = events[3].n /\ events[1].base # events[3].base
  /\ events[2].n > events[1].n /\ events[4].n < events[1].n
  /\ cert[2] = events[1]

\* C12: for every N >= 2 and every base b (0 mod N and b >= N included),
\* miller_rabin(N, b) = Composite only for composite N: for every prime N the
\* answer is MaybePrime.
C12_CompositeIsComposite ==
  (op = "miller_rabin") =>
    /\ ret \in {"Composite", "MaybePrime"}
    /\ ret = "Composite" => ~IsPrimeNat(arg[1])
    /\ IsPrimeNat(arg[1]) => ret = "MaybePrime"

\* An odd prime and a base above it that is neither 0, 1 nor -1 modulo it.
C12_PrimeLargeBase ==
  /\ op = "miller_rabin" /\ ret = "MaybePrime"
  /\ IsPrimeNat(arg[1]) /\ arg[1] > 2 /\ arg[2] > arg[1]
  /\ arg[2] % arg[1] \notin {0, 1, arg[1] - 1}

\* b^e mod n by e multiplications.
RECURSIVE ExpMod(_, _, _)
ExpMod(b, e, n) == IF e = 0 THEN 1 % n ELSE (b * ExpMod(b, e - 1, n)) % n

\* C13: lucas_primality_test(N, divisors, b) is Composite exactly when
\* b^(N-1) # 1 (mod N); otherwise Unknown exactly when b^((N-1)/p) = 1
\* (mod N) for some p of divisors; otherwise Prime.  For N = 71 and divisors
\* [2, 5, 7], base 17 gives Unknown and base 11 gives Prime.
C13_LucasResult ==
  (op = "lucas_primality_test") =>
    /\ (ret = "Composite") = (ExpMod(arg[3], arg[1] - 1, arg[1]) # 1)
    /\ (ret = "Unknown") =
         /\ ExpMod(arg[3], arg[1] - 1, arg[1]) = 1
         /\ \E i \in DOMAIN arg[2] :
              ExpMod(arg[3], (arg[1] - 1) \div arg[2][i], arg[1]) = 1
    /\ (ret = "Prime") =
         /\ ExpMod(arg[3], arg[1] - 1, arg[1]) = 1
         /\ \A i \in DOMAIN arg[2] :
              ExpMod(arg[3], (arg[1] - 1) \div arg[2][i], arg[1]) # 1
    /\ arg = <<71, <<2, 5, 7>>, 17>> => ret = "Unknown"
    /\ arg = <<71, <<2, 5, 7>>, 11>> => ret = "Prime"

\* 71 with the prime divisors of 70 and the base 11: Prime.
C13_SeventyOnePrime ==
  /\ op = "lucas_primality_test"
  /\ arg = <<71, <<2, 5, 7>>, 11>>
  /\ ret = "Prime"

\* The greatest d dividing both u and v (not both zero).
GreatestCommonDivisor(u, v) ==
  CHOOSE d \in 1..(u + v) :
    /\ u % d = 0
    /\ v % d = 0
    /\ \A e \in 1..(u + v) : (u % e = 0 /\ v % e = 0) => e <= d

\* C14: for u, v not both zero, gcd(u, v) is the greatest common divisor of
\* u and v: the common factors of two are multiplied back into the result,
\* so that the gcd of two even numbers is even; gcd(0, v) = v and
\* gcd(u, 0) = u.
C14_GcdIsGreatest ==
  (op = "gcd" /\ arg # <<0, 0>>) =>
    /\ ret = GreatestCommonDivisor(arg[1], arg[2])
    /\ (arg[1] % 2 = 0 /\ arg[2] % 2 = 0) => ret % 2 = 0
    /\ arg[1] = 0 => ret = arg[2]
    /\ arg[2] = 0 => ret = arg[1]

\* C15: for u, v >= 1, g = gcd(u, v) divides u and v, and gcd(u/g, v/g) is
\* 1, gcd being the library's function in both places.
C15_GcdDividesBoth ==
  (op = "gcd" /\ arg[1] >= 1 /\ arg[2] >= 1) =>
    /\ ret >= 1
    /\ arg[1] % ret = 0
    /\ arg[2] % ret = 0
    /\ gcd(arg[1] \div ret, arg[2] \div ret) = 1

\* gcd(12, 18) has returned 3, and gcd(4, 6) is 1.
C15_TwelveEighteen ==
  /\ op = "gcd"
  /\ arg = <<12, 18>>
  /\ ret = 3
  /\ gcd(4, 6) = 1

\* C16: for every n of an unsigned width, r = integer_square_root(n) has
\* r * r <= n < (r + 1) * (r + 1), and no sum of the Newton iteration from
\* n / 2 passes the width's maximum; the root of the width's maximum is the
\* maximum of half the width.
C16_SquareRootBrackets ==
  (op = "integer_square_root") =>
    /\ ~ret.overflow
    /\ ret.r * ret.r <= arg[1]
    /\ arg[1] < (ret.r + 1) * (ret.r + 1)
    /\ ret.r = integer_square_root(arg[1])
    /\ arg[1] = Pow2(arg[2]) - 1 => ret.r = Pow2(arg[2] \div 2) - 1

\* The root of u16::MAX is u8::MAX.
C16_RootOfMaximum ==
  /\ op = "integer_square_root"
  /\ arg = <<65535, 16>>
  /\ ret = [r |-> 255, overflow |-> FALSE]

\* C17: for n >= 1 and every inclusive_bound, trial_division returns a
\* non-decreasing list whose product is n; when the flag is true every element
\* is prime; when it is false every element but the last is prime and the
\* last, the residual, is greater than 1.
C17_TrialDivisionFactors ==
  (op = "trial_division") =>
    /\ ret.done
    /\ NonDecreasing(ret.factors)
    /\ Product(ret.factors) = arg[1]
    /\ ret.exhaustive =>
         \A i \in DOMAIN ret.factors : IsPrimeNat(ret.factors[i])
    /\ ~ret.exhaustive =>
         /\ ret.factors # <<>>
         /\ ret.factors[Len(ret.factors)] > 1
         /\ \A i \in 1..(Len(ret.factors) - 1) : IsPrimeNat(ret.factors[i])

\* 338 with the bound 5: [2, 169], not exhaustive, the residual composite.
C17_CompositeResidual ==
  /\ op = "trial_division"
  /\ arg = <<338, 5>>
  /\ ret.factors = <<2, 169>>
  /\ ~ret.exhaustive

\* C18: every element of the result of trial_division(n, inclusive_bound)
\* that was obtained by dividing n (every element other than a residual
\* appended at the end) is at most inclusive_bound.
C18_DividedWithinBound ==
  (op = "trial_division") =>
    \A i \in 1..ret.divided : ret.factors[i] <= arg[2]

\* C19: for odd composite N and every start and increment, pollard_rho
\* returns Some(d) only with 1 < d < N and d dividing N, and returns None
\* exactly when the gcd found by the re-walk of extract is N.
C19_RhoDivisor ==
  (op = "pollard_rho") =>
    /\ ret.kind \in {"Some", "None"}
    /\ ret.kind = "Some" =>
         /\ 1 < ret.d
         /\ ret.d < arg[1]
         /\ arg[1] % ret.d = 0
         /\ ret.d = ret.candidate
    /\ (ret.kind = "None") = (ret.candidate = arg[1])

\* A call with start 2 and increment 1 that returned None: the re-walk found
\* N itself.
C19_RhoFailed ==
  /\ op = "pollard_rho"
  /\ arg[2] = 2
  /\ arg[3] = 1
  /\ ret.kind = "None"
  /\ ret.candidate = arg[1]

\* The call just made left what r, the outcome of another call, would leave.
LeftAs(r) ==
  /\ status' = r.status
  /\ ret' = r.ret
  /\ cert' = r.cert.c
  /\ events' = r.events.log

\* The u64 call of the name and certainty of the call just made, on the same
\* number and on the certificate as it was before the call.
AsU64 ==
  IF op' = "certified_factor"
  THEN certified_factor(arg',
                        IF certainty' = "Certified" THEN Certified(cert)
                        ELSE Guaranteed,
                        RecordingSubscriptor)
  ELSE certified_prime_check(arg',
                             IF certainty' = "Certified" THEN Certified(cert)
                             ELSE Guaranteed)

GuaranteedLeft(r) ==
  /\ r.cert.kind = "Guaranteed"
  /\ status = r.status
  /\ ret = r.ret
  /\ events = r.events.log

\* The call of the state, made with PrimalityCertainty::Guaranteed.
AsGuaranteed ==
  IF op = "certified_factor"
  THEN certified_factor_of(width, arg, Guaranteed, RecordingSubscriptor)
  ELSE certified_prime_check_of(width, arg, Guaranteed)

\* C21: for N >= 2, certified_factor and certified_prime_check with
\* Certified(c), c empty, return the list or boolean (and make the observer
\* calls) of the same call with Guaranteed, which builds no certificate.
C21_SameAsGuaranteed ==
  (/\ op \in {"certified_factor", "certified_prime_check"}
   /\ certainty = "Certified"
   /\ fresh
   /\ arg >= 2) => GuaranteedLeft(AsGuaranteed)

\* certified_factor has split 16966097 while filling an empty certificate.
C21_CertifiedSplit ==
  /\ op = "certified_factor"
  /\ certainty = "Certified"
  /\ fresh
  /\ arg = 16966097
  /\ ret = <<4111, 4127>>
  /\ Len(cert) > 2

\* The mapper applied k times to x (k applications are those of the first
\* half of k followed by those of the rest).
RECURSIVE Iterate(_, _, _)
Iterate(mapper, x, k) ==
  CASE k = 0 -> x
    [] k = 1 -> mapper_run(mapper, x)
    [] OTHER ->
         LET half == Iterate(mapper, x, k \div 2)
         IN IF half >= 0 THEN Iterate(mapper, half, k - (k \div 2)) ELSE half

\* What holds of find_cycle at each call of the checker.
AtEachCheck ==
  (op = "find_cycle") =>
    /\ ret.fc.power = Pow2(trailing_zeros(ret.fc.power))
    /\ 0 <= ret.fc.count
    /\ ret.fc.count < ret.fc.power
    /\ ret.fc.tortoise = Iterate(ret.mapper, ret.start, ret.fc.power - 1)
    /\ ret.fc.hare =
         Iterate(ret.mapper, ret.start, ret.fc.power + ret.fc.count)

\* What one round of the loop changes.
FromCheckToCheck ==
  (op = "find_cycle" /\ op' = "find_cycle" /\ ~ret'.fc.done) =>
    /\ ret'.fc.hare = mapper_run(ret.mapper, ret.fc.hare)
    /\ IF ret.fc.count + 1 = ret.fc.power
       THEN /\ ret'.fc.tortoise = ret.fc.hare
            /\ ret'.fc.power = 2 * ret.fc.power
            /\ ret'.fc.count = 0
       ELSE /\ ret'.fc.tortoise = ret.fc.tortoise
            /\ ret'.fc.power = ret.fc.power
            /\ ret'.fc.count = ret.fc.count + 1

\* C22: in find_cycle, at every call of the checker, power is a power of
\* two, 0 <= count < power, the tortoise is the (power - 1)-th iterate of the
\* mapper on start and the hare the (power + count)-th; the tortoise changes
\* only when count reaches power, where it takes the hare's value, power
\* doubles and count is reset to 0; the hare advances by one application of
\* the mapper in each round of the loop.
C22_BrentPositions == []AtEachCheck /\ [][FromCheckToCheck]_vars

\* The checker is called in the epoch of power 16, at count 5.
C22_FifthEpoch ==
  /\ op = "find_cycle"
  /\ ~ret.fc.done
  /\ ret.fc.power = 16
  /\ ret.fc.count = 5

\* C23: in the checker of every width, the last check computed gcd(A, N)
\* exactly if (power - count) & ((1 << max(5, log2(power) / 2)) - 1) == 1;
\* last_hare was recorded only if it did, and last_tortoise is the tortoise
\* of the check.
C23_GcdSchedule ==
  (op = "find_cycle" /\ ret.checks > 0) =>
    /\ ret.taken =
         (((ret.at.power - ret.at.count)
             % Pow2(Max(5, trailing_zeros(ret.at.power) \div 2))) = 1)
    /\ ret.recorded => ret.taken
    /\ ret.fc.cycle_condition.last_tortoise = ret.at.tortoise

\* C30: the last check of every Brent epoch (count = power - 1) computes a
\* gcd, so every check made after the one that recorded last_hare has the
\* tortoise of the stopping check (last_hare is no earlier than the position
\* the tortoise was taken from); extract, walking from mapper(last_hare),
\* ends with a gcd > 1 no later than the hare position at which find_cycle
\* stopped.
C30_ExtractEnds ==
  /\ (op = "find_cycle" /\ ret.checks > 0
        /\ ret.at.count = ret.at.power - 1) => ret.taken
  /\ (op \in {"find_cycle", "extract"}) =>
       /\ ret.rec >= ret.fc.power - 1
       /\ ret.rec <= ret.fc.power + ret.fc.count
       /\ ret.fc.cycle_condition.last_hare =
            Iterate(ret.mapper, ret.start, ret.rec)
  /\ (op \in {"find_cycle", "extract"} /\ ret.fc.done) =>
       ret.fc.cycle_condition.last_tortoise =
         Iterate(ret.mapper, ret.start, ret.fc.power - 1)
  /\ (op = "extract") =>
       /\ ret.x.done
       /\ ret.x.d > 1
       /\ ret.rec + 1 + ret.x.steps <= ret.fc.power + ret.fc.count

\* extract had to walk several steps, in an epoch of power 32 or more, and
\* found a proper divisor.
C30_RewalkSteps ==
  /\ op = "extract"
  /\ ret.fc.power >= 32
  /\ ret.x.done
  /\ ret.x.steps >= 2
  /\ 1 < ret.x.d
  /\ ret.x.d < arg[1]

\* The calls of pollard_rho so far: the first has the increment 1, each has
\* the start 2 and the composite on top of the stack.
EachRhoCall ==
  (op = "pollard_loop") =>
    /\ ret.rounds = 0 => ret.st.pollard_rho_increment = 1
    /\ ret.rounds = 1 => ret.call.constant_increment = 1
    /\ ret.rounds > 0 => ret.call.start = 2

\* From one call of pollard_rho to the next.
NextRhoCall ==
  (op = "pollard_loop" /\ op' = "pollard_loop" /\ ret.rounds > 0) =>
    /\ ret'.call.self = ret.st.composite_factors[Len(ret.st.composite_factors)]
    /\ ret.call.answer.kind = "None" =>
         /\ ret'.call.self = ret.call.self
         /\ ret'.call.constant_increment = ret.call.constant_increment + 1
    /\ ret.call.answer.kind = "Some" =>
         ret'.call.constant_increment = ret.call.constant_increment

\* C24: in pollard_loop every call of pollard_rho has start = 2; the
\* increment is 1 at first, is one more after each None, the same composite
\* being retried, and is carried over unchanged by a split, so that a
\* composite part is first attacked with the increment that produced it.
C24_IncrementCarried == []EachRhoCall /\ [][NextRhoCall]_vars

\* 125 was split with the increment 2 into 25 and 5, and 25 has been
\* attacked with the increment 2.
C24_PartWithSameIncrement ==
  /\ op = "pollard_loop"
  /\ ret.st.splits = 1
  /\ ret.call.self = 25
  /\ ret.call.constant_increment = 2
  /\ ret.call.start = 2

\* The numbers of the events e2, e3 that are of the kind ev, in order.
Picked(e2, e3, ev) ==
  (IF e2.ev = ev THEN <<e2.n>> ELSE <<>>)
    \o (IF e3.ev = ev THEN <<e3.n>> ELSE <<>>)

\* The round that split c into f and c / f sent new after old to the
\* observer, and moved the two parts accordingly.
SplitReportedAs(c, f, old, new) ==
  /\ Len(new) = Len(old) + 3
  /\ SubSeq(new, 1, Len(old)) = old
  /\ new[Len(old) + 1] =
       [ev |-> "factorized", n |-> c, primes |-> <<>>, composites |-> <<>>,
        unknown |-> <<f, c \div f>>]
  /\ new[Len(old) + 2].ev \in {"is_prime", "is_composite"}
  /\ new[Len(old) + 2].n = f
  /\ new[Len(old) + 3].ev \in {"is_prime", "is_composite"}
  /\ new[Len(old) + 3].n = c \div f
  /\ ret'.st.prime_factors =
       ret.st.prime_factors
         \o Picked(new[Len(old) + 2], new[Len(old) + 3], "is_prime")
  /\ ret'.st.composite_factors =
       SubSeq(ret.st.composite_factors, 1, Len(ret.st.composite_factors) - 1)
         \o Picked(new[Len(old) + 2], new[Len(old) + 3], "is_composite")

EventsOfRound ==
  (op = "pollard_loop" /\ op' = "pollard_loop") =>
    IF ret'.call.answer.kind = "Some"
    THEN SplitReportedAs(ret'.call.self, ret'.call.answer.d,
                         ret.st.events.log, ret'.st.events.log)
    ELSE ret'.st.events.log = ret.st.events.log

\* C25: each split of a composite c into f and other = c / f sends the
\* observer factorized(c, [], [], [f, other]), then is_prime(f) or
\* is_composite(f), then is_prime(other) or is_composite(other), and nothing
\* else, before the next split; is_prime(x) exactly when x is appended to
\* the prime list, is_composite(x) exactly when x is pushed onto the stack.
C25_SplitEvents == [][EventsOfRound]_vars

\* A split has reported a prime part and then a composite part.
C25_PrimeThenComposite ==
  /\ op = "pollard_loop"
  /\ ret.call.answer.kind = "Some"
  /\ Len(ret.st.events.log) = 3
  /\ ret.st.events.log[1].ev = "factorized"
  /\ ret.st.events.log[2].ev = "is_prime"
  /\ ret.st.events.log[3].ev = "is_composite"
  /\ ret.st.composite_factors = <<ret.st.events.log[3].n>>

\* The event for the split of n by trial division td.
TrialSplitEvent(n, td) ==
  [ev |-> "factorized", n |-> n,
   primes |-> SubSeq(td.factors, 1, Len(td.factors) - 1),
   composites |-> <<td.factors[Len(td.factors)]>>, unknown |-> <<>>]

\* Trial division td was not exhaustive and its residual is composite.
CompositeResidual(td) ==
  /\ td.done
  /\ ~td.exhaustive
  /\ ~IsPrimeNat(td.factors[Len(td.factors)])

\* C26: whenever trial division is not exhaustive and its residual is
\* composite, the first event the observer receives is the factorized event
\* for the split of N into the small primes found and the composite residual,
\* whether or not trial division found a small prime.
C26_TrialSplitReported ==
  (/\ op \in {"factor_events", "certified_factor"}
   /\ status = "ok"
   /\ arg >= 2
   /\ CompositeResidual(trial_division(arg, TRIAL_THRESHHOLD))) =>
    /\ Len(events) > 0
    /\ events[1] = TrialSplitEvent(arg, trial_division(arg, TRIAL_THRESHHOLD))

\* The step is a call of certified_prime_check with Certified(c) on a number
\* that c, the certificate before the call, contains.
ContainedChecked ==
  /\ op' = "certified_prime_check"
  /\ certainty' = "Certified"
  /\ contains(cert, arg')

QuadraticResidue(n, p) == \E x \in 1..(p - 1) : (x * x) % p = n

\* C28: for an odd prime p and a quadratic residue n mod p with 1 <= n < p,
\* r = tonelli_shanks(n, p) satisfies r * r = n (mod p), on the path of
\* p = 3 (mod 4) and on the general path; and for 2 <= n < p,
\* eulers_criterion(n, p) is true exactly when n is a quadratic residue.
C28_ModularSquareRoot ==
  /\ (/\ op = "tonelli_shanks"
      /\ arg[2] > 2
      /\ arg[1] >= 1
      /\ QuadraticResidue(arg[1], arg[2])) =>
       /\ ~ret.panic
       /\ ret.r < arg[2]
       /\ (ret.r * ret.r) % arg[2] = arg[1]
  /\ (op = "eulers_criterion" /\ arg[2] > 2 /\ arg[1] >= 2) =>
       (ret = QuadraticResidue(arg[1], arg[2]))

\* A root of 2 mod 257 was found on the general path (257 - 1 = 2^8, and 2
\* is not of odd order: the while loop ran).
C28_RootOnGeneralPath ==
  /\ op = "tonelli_shanks"
  /\ arg = <<2, 257>>
  /\ ret.r \in {60, 197}

\* The lists of st hold a factorization of n: the product is n, prime_factors
\* holds primes and composite_factors composites above one.
Factorization(st, n) ==
  /\ Product(st.prime_factors) * Product(st.composite_factors) = n
  /\ \A k \in DOMAIN st.prime_factors : IsPrimeNat(st.prime_factors[k])
  /\ \A k \in DOMAIN st.composite_factors :
       /\ st.composite_factors[k] > 1
       /\ ~IsPrimeNat(st.composite_factors[k])

\* Where "while let Some(current_factor)" is evaluated, and when it was left.
AtEachRound ==
  (op \in {"pollard_loop", "pollard_loop_left"} /\ ret.st.status = "ok") =>
    /\ Factorization(ret.st, arg)
    /\ op = "pollard_loop_left" => Len(ret.st.composite_factors) = 0

\* A round whose pollard_rho answered None, and the step that leaves the loop.
RoundOrLeave ==
  /\ (op = "pollard_loop" /\ op' = "pollard_loop"
      /\ ret'.call.answer.kind = "None") =>
       ret'.st = [ret.st EXCEPT !.pollard_rho_increment = @ + 1]
  /\ (op = "pollard_loop" /\ op' = "pollard_loop_left") =>
       /\ Len(ret.st.composite_factors) = 0
       /\ ret' = ret

\* C29: whenever pollard_loop evaluates its loop condition, the product of
\* prime_factors and composite_factors is N, prime_factors holds primes and
\* composite_factors composites above one; a None of pollard_rho changes the
\* increment only; the loop is left only on an empty composite_factors.
C29_LoopKeepsFactorization == []AtEachRound /\ [][RoundOrLeave]_vars

\* Two composite parts wait on the stack after a split, next to primes the
\* loop was entered with.
C29_TwoCompositesWaiting ==
  /\ op = "pollard_loop"
  /\ ret.st.status = "ok"
  /\ ret.st.splits >= 1
  /\ Len(ret.st.composite_factors) = 2
  /\ Len(ret.st.prime_factors) = 3
  /\ ret.st.pollard_rho_increment >= 2

====
